---- MODULE Spec2Model ----
(***************************************************************************)
(* Model of the memoization wrappers of at-decorators.                     *)
(*                                                                         *)
(*  Spec            the single-store memoizeFactory (memoize.ts, the       *)
(*                  revision with maxCacheSizePerTarget), sync target      *)
(*  SpecAsync       the same around an async target                        *)
(*  SpecPersistent  memoizeWithPersistentCacheFactory (index.ts) with the  *)
(*                  Map-backed persistent store of the unit tests          *)
(*  SpecFailing     the same with backend callbacks that throw             *)
(*  SpecPersistentAsync  the persistent factory around an async target     *)
(*  SpecEviction    the persistent factory filled beyond its capacity      *)
(*  SpecNamespaces  two targets of one persistent factory                  *)
(*  SpecCaches      wrapping targets with a factory that has a caches list *)
(*  SpecTwoLevel    memoizeFactory of memoize.ts (receiver -> key -> entry)*)
(*  SpecOne         memoizeOne (memoizeOne.ts)                             *)
(*  SpecOneWithEmptyHash  memoizeOneWithEmptyHash (memoizeOne.ts)          *)
(*  SpecContext     memoizeFactory on a method, default getCacheKey        *)
(*  SpecGetter      memoizeFactory on a getter, default getCacheKey        *)
(*  SpecReceivers   memoizeFactory of memoize.ts on a method, receivers    *)
(*                  beyond maxCachedThisSize                               *)
(*  SpecListify     listify (oson/stringify.ts) on a value graph           *)
(*  SpecListifyFair the same, every enabled step eventually taken          *)
(*  SpecSha         sha3_512 (hash.ts) called on a few messages            *)
(*  SpecUtf8        sha3_512 on messages with astral code points           *)
(*  SpecCounter     memoizeFactory on the getter `count` of the tests      *)
(*  SpecShared      two targets wrapped with the same persistentKey        *)
(*  SpecAsyncBackend  the persistent factory with a backend whose          *)
(*                  removeCache and persistCache complete later            *)
(*  SpecBoth        memoizeFactory and the persistent factory side by side *)
(*  SpecCyrb        cyrb64HashWithLength on a few strings and seeds        *)
(*  SpecCachedArgsAsync  the persistent factory of                         *)
(*                  memoizeWithPersistentCache.ts around an async target   *)
(*                                                                         *)
(* A store is a JavaScript Map<string, [value, cachedAt]>: a sequence of   *)
(* entries in insertion order.  The wrapped target is the test suite's     *)
(* counter function: its n-th invocation yields the value n, so a value    *)
(* names the invocation that computed it.  A promise returned by an async  *)
(* target is named by its invocation as well; its settlement is recorded   *)
(* in `invoked`.                                                           *)
(***************************************************************************)
EXTENDS Integers, Sequences, FiniteSets, TLC

\* ---------------------------------------------------------------- bounds
MaxTime == 2
MaxInvocations == 4
MaxCacheSize == 2
MaxPromises == 2
MaxList == 8
MaxCalls == 3
MaxInflight == 3

\* Number.POSITIVE_INFINITY: larger than every difference of two clock readings.
POSITIVE_INFINITY == MaxTime + 1

\* The cache keys the calls derive: one more than the largest capacity.
Keys == {1, 2, 3}
Durations == {-1, 0, 1, POSITIVE_INFINITY}
Capacities == 1..MaxCacheSize
TargetKinds == {"sync", "async"}

\* What one invocation of the target does: a sync target returns the next
\* integer or throws before taking it; an async target returns a promise.
OutcomesOf(kind) == IF kind = "sync" THEN {"value", "threw"} ELSE {"pending"}

NoKey == 0
NoValue == 0

VARIABLES
  cacheDuration,          \* option cacheDuration
  maxCacheSizePerTarget,  \* option maxCacheSizePerTarget
  targetKind,             \* whether the wrapped target is an async function
  cachesOption,           \* persistent: whether the factory was given a `caches` list
  now,                    \* Date.now()
  invoked,                \* one record per invocation of the target that returned
  cache,                  \* memoizeFactory: the target's Map, in insertion order
  cleared,                \* memoizeFactory: whether the caller has cleared the store
  obs,                    \* memoizeFactory: what the latest call of the wrapper did
  persistentKeyOf,        \* persistent: the persistentKey each target was wrapped with
  failing,                \* persistent: the backend callbacks that throw
  caches,                 \* persistent: the `caches` list, one Map per wrapped target
  persistentStore,        \* persistent: the backend's Map, name -> [value, at]
  awaiting,               \* persistent: the persistCache calls waiting for a promise
  microtasks,             \* persistent: the continuations after `await result` not yet run
  pobs,                   \* persistent: what the latest call of the wrapper did
  inflight,               \* persistent: the calls of an asynchronous backend not yet completed
  contextKind,            \* memoize.ts: context.kind of the decorated member
  maxCachedArgsSize,      \* memoize.ts: option maxCachedArgsSize
  maxCachedThisSize,      \* memoize.ts: option maxCachedThisSize
  cacheByThis,            \* memoize.ts: the Map keyed by `this`, in insertion order
  tobs,                   \* memoize.ts: what the latest call of the wrapper did
  getCacheKey,            \* memoizeOne.ts: option getCacheKey
  lastCache,              \* memoizeOne.ts: let lastCache
  lastCachedAt,           \* memoizeOne.ts: let lastCachedAt
  lastHash,               \* memoizeOne.ts: let lastHash
  oobs,                   \* memoizeOne.ts: what the latest call of the wrapper did
  graph,                  \* oson: the objects and arrays the encoded value refers to
  root,                   \* oson: the argument `value` of listify
  olist,                  \* oson: listify's `list`
  oindex,                 \* oson: listify's `index`, value -> position
  frames,                 \* oson: the calls of `add` on a container that have not returned
  returned,               \* oson: what listify returned
  keccak,                 \* hash: the fields of the Keccak object of the call
  sha,                    \* hash: the position of the call of sha3_512
  digests,                \* hash: message and result of every finished call
  cyrb,                   \* hash: the position of the call of cyrb64HashWithLength
  cyrbKeys                \* hash: input, seed and result of every finished call of it

config == <<cacheDuration, maxCacheSizePerTarget, targetKind, cachesOption>>
memVars == <<cache, cleared, obs>>
perVars == <<persistentKeyOf, failing, caches, persistentStore, awaiting, pobs>>
twoLevelVars == <<contextKind, maxCachedArgsSize, maxCachedThisSize, cacheByThis, tobs>>
oneVars == <<getCacheKey, lastCache, lastCachedAt, lastHash, oobs>>

osonVars == <<graph, root, olist, oindex, frames, returned>>
shaVars == <<keccak, sha, digests, cyrb, cyrbKeys>>

vars == <<config, inflight, microtasks, now, invoked, memVars, perVars, twoLevelVars, oneVars, osonVars, shaVars>>

\* ------------------------------------------------------- Map operations
\* Map.prototype.has
MapHas(m, k) == \E i \in DOMAIN m : m[i].key = k

\* Map.prototype.get (of a key that is present)
MapGet(m, k) == m[CHOOSE i \in DOMAIN m : m[i].key = k]

\* Map.prototype.delete
MapDelete(m, k) == SelectSeq(m, LAMBDA e : e.key # k)

\* Map.prototype.set: a present key keeps its place, a new key goes last.
MapSet(m, k, v, t) ==
  IF MapHas(m, k)
    THEN [i \in DOMAIN m |-> IF m[i].key = k THEN [key |-> k, value |-> v, at |-> t] ELSE m[i]]
    ELSE Append(m, [key |-> k, value |-> v, at |-> t])

\* --------------------------------------------------- memoizeFactory parts
\* `now - cachedAt <= cacheDuration`, preceded by faulty variants of it: a
\* strict comparison, the subtraction reversed.
IsFreshStrict(t, cachedAt, d) == t - cachedAt < d
IsFreshReversed(t, cachedAt, d) == cachedAt - t <= d
IsFresh(t, cachedAt, d) == t - cachedAt <= d

\* `if (cache.size >= maxCacheSizePerTarget) cache.delete(cache.keys().next().value)`,
\* preceded by faulty variants: one that deletes nothing, one that deletes
\* the last key instead of the first.
EvictNone(m, max) == m
EvictNewest(m, max) ==
  IF Len(m) >= max /\ Len(m) > 0 THEN SubSeq(m, 1, Len(m) - 1) ELSE m
EvictOldest(m, max) ==
  IF Len(m) >= max /\ Len(m) > 0 THEN Tail(m) ELSE m

\* The store after the lookup of `hash` missed: a stale entry is deleted.
AfterLookup(m, hash) == MapDelete(m, hash)

\* The store after a computed `result` is put under `hash`.
Put(m, hash, result, t, max) == MapSet(EvictOldest(m, max), hash, result, t)

\* A hit moves nothing; the faulty variant before it moves the key last, as a
\* least-recently-used store would.
HitRefreshing(m, hash) == Append(MapDelete(m, hash), MapGet(m, hash))
Hit(m, hash) == m

\* The wrapper of memoizeFactory called with arguments that derive `hash`,
\* the target doing `outcome` if it is invoked.
Call(hash, outcome) ==
  /\ outcome \in OutcomesOf(targetKind)
  /\ IF MapHas(cache, hash) /\ IsFresh(now, MapGet(cache, hash).at, cacheDuration)
       THEN /\ cache' = Hit(cache, hash)
            /\ obs' = [key |-> hash, result |-> MapGet(cache, hash).value, path |-> "hit"]
            /\ UNCHANGED invoked
       ELSE /\ Len(invoked) < MaxInvocations
            /\ IF outcome = "threw"
                 THEN /\ cache' = AfterLookup(cache, hash)
                      /\ obs' = [key |-> hash, result |-> NoValue, path |-> "threw"]
                      /\ UNCHANGED invoked
                 ELSE /\ invoked' = Append(invoked, [key |-> hash, kind |-> outcome])
                      /\ cache' = Put(AfterLookup(cache, hash), hash, Len(invoked) + 1,
                                      now, maxCacheSizePerTarget)
                      /\ obs' = [key |-> hash, result |-> Len(invoked) + 1,
                                 path |-> IF MapHas(cache, hash) THEN "stale" ELSE "miss"]
  /\ UNCHANGED <<twoLevelVars, oneVars, config, inflight, microtasks, osonVars, shaVars, now, cleared, perVars>>

\* A promise returned by the async target resolves or rejects.
Settle(v, how) ==
  /\ v \in DOMAIN invoked
  /\ invoked[v].kind = "pending"
  /\ invoked' = [invoked EXCEPT ![v].kind = how]
  /\ UNCHANGED <<twoLevelVars, oneVars, config, inflight, microtasks, osonVars, shaVars, now, memVars, perVars>>

\* Time passes.
Tick ==
  /\ now < MaxTime
  /\ now' = now + 1
  /\ UNCHANGED <<twoLevelVars, oneVars, config, inflight, microtasks, osonVars, shaVars, invoked, memVars, perVars>>

\* The caller clears the store through the `caches` list.
Clear ==
  /\ cache # <<>>
  /\ cache' = <<>>
  /\ cleared' = TRUE
  /\ UNCHANGED <<twoLevelVars, oneVars, config, inflight, microtasks, osonVars, shaVars, now, invoked, obs, perVars>>

\* ------------------------------ memoizeWithPersistentCacheFactory parts
PTargets == {1, 2}
\* The cache keys the calls of the persistent wrapper derive.
PKeys == {1, 2}
PersistentKeys == {"nextInteger", "nextInteger2"}
BackendOps == {"persistCache", "tryReadingCache", "removeCache"}

\* The value a promise resolves to, as distinct from the promise object; the
\* faulty variant before it hands on the promise object.
PromiseItself(p) == p
ResolvedValue(p) == -p

\* `${persistentKey}_${hash}`, preceded by a faulty variant that leaves the
\* persistentKey out.
NameWithoutNamespace(persistentKey, hash) == <<"", hash>>
Name(persistentKey, hash) == <<persistentKey, hash>>

NoEntry == [value |-> NoValue, at |-> -1]

\* The backend of the unit tests: persistentStore.set / .get / .delete.  A
\* callback in `failing` throws instead, which the wrapper catches.  The
\* faulty variant of persistCache takes value and currentTime in the other order.
PersistCacheSwapped(store, persistentKey, hash, value, currentTime) ==
  IF "persistCache" \in failing THEN store
  ELSE [n \in DOMAIN store \cup {Name(persistentKey, hash)} |->
          IF n = Name(persistentKey, hash) THEN [value |-> currentTime, at |-> value]
          ELSE store[n]]
PersistCache(store, persistentKey, hash, value, currentTime) ==
  IF "persistCache" \in failing THEN store
  ELSE [n \in DOMAIN store \cup {Name(persistentKey, hash)} |->
          IF n = Name(persistentKey, hash) THEN [value |-> value, at |-> currentTime]
          ELSE store[n]]

TryReadingCache(store, persistentKey, hash) ==
  IF "tryReadingCache" \notin failing /\ Name(persistentKey, hash) \in DOMAIN store
    THEN store[Name(persistentKey, hash)]
    ELSE NoEntry

\* removeCache, preceded by a faulty variant that deletes nothing.
RemoveNothing(store, persistentKey, hash) == store
RemoveCache(store, persistentKey, hash) ==
  IF "removeCache" \in failing THEN store
  ELSE [n \in DOMAIN store \ {Name(persistentKey, hash)} |-> store[n]]

Op(name, hash) == [op |-> name, key |-> hash]

\* Whether one of the backend callbacks called in `ops` threw.
Thrown(ops) == \E i \in DOMAIN ops : ops[i].op \in failing

\* `try { ... } catch { // do nothing. }` around every call of a backend
\* callback: whether an error thrown inside reaches the caller.  The faulty
\* variant before it is the wrapper without the try statements.
CatchNothing(thrown) == thrown
Catch(thrown) == FALSE

\* `cache.set(hash, [cachedValue, cachedAt])` of a live backend entry,
\* preceded by faulty variants: one that leaves the memory store as it is,
\* one that stamps the copy with the time of the read.
CopyNothing(m, hash, entry) == m
CopyAtReadTime(m, hash, entry) == MapSet(m, hash, entry.value, now)
CopyToMemory(m, hash, entry) == MapSet(m, hash, entry.value, entry.at)

\* The wrapper of memoizeWithPersistentCacheFactory for target `t`, called
\* with arguments that derive `hash`, the target doing `outcome` if invoked.
PCall(t, hash, outcome) ==
  LET persistentKey == persistentKeyOf[t]
      m0 == caches[t]
      inMemory == MapHas(m0, hash)
      memoryHit == inMemory /\ IsFresh(now, MapGet(m0, hash).at, cacheDuration)
      \* a stale memory entry: cache.delete(hash); removeCache(persistentKey, hash)
      stale == inMemory /\ ~memoryHit
      m1 == IF stale THEN MapDelete(m0, hash) ELSE m0
      s1 == IF stale THEN RemoveCache(persistentStore, persistentKey, hash) ELSE persistentStore
      ops1 == IF stale THEN <<Op("removeCache", hash)>> ELSE <<>>
      \* tryReadingCache(persistentKey, hash)
      persistentCache == TryReadingCache(s1, persistentKey, hash)
      found == persistentCache # NoEntry
      backendHit == found /\ IsFresh(now, persistentCache.at, cacheDuration)
      s2 == IF found /\ ~backendHit THEN RemoveCache(s1, persistentKey, hash) ELSE s1
      ops2 == ops1 \o <<Op("tryReadingCache", hash)>>
                   \o (IF found /\ ~backendHit THEN <<Op("removeCache", hash)>> ELSE <<>>)
      \* the target is invoked; the oldest entry makes room
      evict == Len(m1) >= maxCacheSizePerTarget /\ Len(m1) > 0
      m2 == EvictOldest(m1, maxCacheSizePerTarget)
      s3 == IF evict THEN RemoveCache(s2, persistentKey, m1[1].key) ELSE s2
      ops3 == ops2 \o (IF evict THEN <<Op("removeCache", m1[1].key)>> ELSE <<>>)
      result == Len(invoked) + 1
  IN
  /\ outcome \in OutcomesOf(targetKind)
  /\ IF memoryHit
       THEN /\ pobs' = [target |-> t, key |-> hash, result |-> MapGet(m0, hash).value,
                        path |-> "hit", ops |-> <<>>, error |-> FALSE]
            /\ UNCHANGED <<caches, persistentStore, awaiting, invoked>>
       ELSE IF backendHit
       THEN /\ caches' = [caches EXCEPT ![t] = CopyToMemory(m1, hash, persistentCache)]
            /\ persistentStore' = s1
            /\ pobs' = [target |-> t, key |-> hash, result |-> persistentCache.value,
                        path |-> "backend", ops |-> ops2, error |-> Catch(Thrown(ops2))]
            /\ UNCHANGED <<awaiting, invoked>>
       ELSE /\ Len(invoked) < MaxInvocations
            /\ IF outcome = "threw"
                 THEN /\ caches' = [caches EXCEPT ![t] = m1]
                      /\ persistentStore' = s2
                      /\ pobs' = [target |-> t, key |-> hash, result |-> NoValue,
                                  path |-> "threw", ops |-> ops2,
                                  error |-> Catch(Thrown(ops2))]
                      /\ UNCHANGED <<awaiting, invoked>>
                 ELSE /\ invoked' = Append(invoked, [key |-> hash, kind |-> outcome,
                                                     target |-> t])
                      /\ caches' = [caches EXCEPT ![t] = MapSet(m2, hash, result, now)]
                      /\ IF outcome = "pending"
                           THEN /\ persistentStore' = s3
                                /\ awaiting' = Append(awaiting,
                                     [persistentKey |-> persistentKey, hash |-> hash,
                                      result |-> result, now |-> now])
                                /\ pobs' = [target |-> t, key |-> hash, result |-> result,
                                            path |-> "miss", ops |-> ops3,
                                            error |-> Catch(Thrown(ops3))]
                           ELSE /\ persistentStore' = PersistCache(s3, persistentKey, hash,
                                                                   result, now)
                                /\ pobs' = [target |-> t, key |-> hash, result |-> result,
                                            path |-> "miss",
                                            ops |-> ops3 \o <<Op("persistCache", hash)>>,
                                            error |-> Catch(Thrown(
                                              ops3 \o <<Op("persistCache", hash)>>))]
                                /\ UNCHANGED awaiting
  /\ UNCHANGED <<twoLevelVars, oneVars, config, inflight, microtasks, osonVars, shaVars, now, memVars, persistentKeyOf, failing>>

\* A promise returned by the async target settles.  The async function of
\* the call is suspended at `await result`: a resolution queues its
\* continuation as a microtask, behind the continuations queued before; a
\* rejection ends it in its empty catch.  Whatever runs before the
\* microtask (the rest of the run that resolved the promise, a microtask
\* queued earlier) sees the promise settled and the backend as it was.  A
\* promise that is already resolved when the target returns is a call
\* directly followed by this step.
PSettle(v, how) ==
  /\ v \in DOMAIN invoked
  /\ invoked[v].kind = "pending"
  /\ invoked' = [invoked EXCEPT ![v].kind = how]
  /\ awaiting' = SelectSeq(awaiting, LAMBDA j : j.result # v)
  /\ microtasks' = IF how = "resolved"
                     THEN microtasks \o SelectSeq(awaiting, LAMBDA j : j.result = v)
                     ELSE microtasks
  /\ UNCHANGED <<twoLevelVars, oneVars, config, inflight, osonVars, shaVars, now, memVars,
                 persistentKeyOf, failing, caches, persistentStore, pobs>>

\* The continuation after `await result`, the oldest queued one:
\* `persistCache(persistentKey, hash, await result, now)` with the resolved
\* value and the `now` of the call.
PersistAwaited ==
  /\ microtasks # <<>>
  /\ persistentStore' = PersistCache(persistentStore, Head(microtasks).persistentKey,
                                     Head(microtasks).hash,
                                     ResolvedValue(Head(microtasks).result),
                                     Head(microtasks).now)
  /\ microtasks' = Tail(microtasks)
  /\ UNCHANGED <<twoLevelVars, oneVars, config, inflight, osonVars, shaVars, now, invoked,
                 memVars, persistentKeyOf, failing, caches, awaiting, pobs>>

\* The wrapper of memoizeWithPersistentCacheFactory as defined in
\* memoizeWithPersistentCache.ts for target `t`; its capacity option is held
\* in maxCacheSizePerTarget.  It differs from PCall in what follows `cache.set`: for a
\* Promise result the statement is `void (async () => { ... });`, an async
\* function that is created and never called, so that nothing awaits the
\* promise and persistCache is not reached; for any other result
\* persistCache is called at once.
PCallOfMemoizeWithPersistentCache(t, hash, outcome) ==
  LET persistentKey == persistentKeyOf[t]
      m0 == caches[t]
      inMemory == MapHas(m0, hash)
      memoryHit == inMemory /\ IsFresh(now, MapGet(m0, hash).at, cacheDuration)
      stale == inMemory /\ ~memoryHit
      m1 == IF stale THEN MapDelete(m0, hash) ELSE m0
      s1 == IF stale THEN RemoveCache(persistentStore, persistentKey, hash) ELSE persistentStore
      ops1 == IF stale THEN <<Op("removeCache", hash)>> ELSE <<>>
      persistentCache == TryReadingCache(s1, persistentKey, hash)
      found == persistentCache # NoEntry
      backendHit == found /\ IsFresh(now, persistentCache.at, cacheDuration)
      s2 == IF found /\ ~backendHit THEN RemoveCache(s1, persistentKey, hash) ELSE s1
      ops2 == ops1 \o <<Op("tryReadingCache", hash)>>
                   \o (IF found /\ ~backendHit THEN <<Op("removeCache", hash)>> ELSE <<>>)
      evict == Len(m1) >= maxCacheSizePerTarget /\ Len(m1) > 0
      m2 == EvictOldest(m1, maxCacheSizePerTarget)
      s3 == IF evict THEN RemoveCache(s2, persistentKey, m1[1].key) ELSE s2
      ops3 == ops2 \o (IF evict THEN <<Op("removeCache", m1[1].key)>> ELSE <<>>)
      result == Len(invoked) + 1
  IN
  /\ outcome \in OutcomesOf(targetKind)
  /\ IF memoryHit
       THEN /\ pobs' = [target |-> t, key |-> hash, result |-> MapGet(m0, hash).value,
                        path |-> "hit", ops |-> <<>>, error |-> FALSE]
            /\ UNCHANGED <<caches, persistentStore, invoked>>
       ELSE IF backendHit
       THEN /\ caches' = [caches EXCEPT ![t] = CopyToMemory(m1, hash, persistentCache)]
            /\ persistentStore' = s1
            /\ pobs' = [target |-> t, key |-> hash, result |-> persistentCache.value,
                        path |-> "backend", ops |-> ops2, error |-> Catch(Thrown(ops2))]
            /\ UNCHANGED invoked
       ELSE /\ Len(invoked) < MaxInvocations
            /\ IF outcome = "threw"
                 THEN /\ caches' = [caches EXCEPT ![t] = m1]
                      /\ persistentStore' = s2
                      /\ pobs' = [target |-> t, key |-> hash, result |-> NoValue,
                                  path |-> "threw", ops |-> ops2,
                                  error |-> Catch(Thrown(ops2))]
                      /\ UNCHANGED invoked
                 ELSE /\ invoked' = Append(invoked, [key |-> hash, kind |-> outcome,
                                                     target |-> t])
                      /\ caches' = [caches EXCEPT ![t] = MapSet(m2, hash, result, now)]
                      /\ IF outcome = "pending"
                           THEN /\ persistentStore' = s3
                                /\ pobs' = [target |-> t, key |-> hash, result |-> result,
                                            path |-> "miss", ops |-> ops3,
                                            error |-> Catch(Thrown(ops3))]
                           ELSE /\ persistentStore' = PersistCache(s3, persistentKey, hash,
                                                                   result, now)
                                /\ pobs' = [target |-> t, key |-> hash, result |-> result,
                                            path |-> "miss",
                                            ops |-> ops3 \o <<Op("persistCache", hash)>>,
                                            error |-> Catch(Thrown(
                                              ops3 \o <<Op("persistCache", hash)>>))]
  /\ UNCHANGED <<twoLevelVars, oneVars, config, inflight, microtasks, osonVars, shaVars, now, memVars,
                 persistentKeyOf, failing, awaiting>>

\* `caches?.push(cache)`, preceded by a faulty variant that registers nothing.
PushNothing(list, m) == list
Push(list, m) == Append(list, m)

\* memoize(persistentKey)(target): a store is created for the target and
\* registered in the `caches` list of the factory.
Wrap(persistentKey) ==
  /\ Len(persistentKeyOf) < Cardinality(PTargets)
  /\ persistentKeyOf' = Append(persistentKeyOf, persistentKey)
  /\ caches' = Push(caches, <<>>)
  /\ UNCHANGED <<twoLevelVars, oneVars, config, inflight, microtasks, osonVars, shaVars, now, invoked, memVars, failing,
                 persistentStore, awaiting, pobs>>

\* clearMemoryCaches of the unit tests: `for (const cache of caches) cache.clear()`.
\* `caches?.push(cache)` put the target's Map into the list only if the
\* factory was given one; the Map of a factory without the option is not
\* reached and the call changes nothing.
PClear ==
  /\ cachesOption
  /\ \E t \in DOMAIN caches : caches[t] # <<>>
  /\ caches' = [t \in DOMAIN caches |-> <<>>]
  /\ UNCHANGED <<twoLevelVars, oneVars, config, inflight, microtasks, osonVars, shaVars, now, invoked, memVars, persistentKeyOf, failing,
                 persistentStore, awaiting, pobs>>

\* A call of removeCache or persistCache of an asynchronous backend: the
\* callback returns a promise at once and changes the store when the
\* operation completes.
RemoveOp(persistentKey, hash) ==
  [op |-> "removeCache", persistentKey |-> persistentKey, hash |-> hash,
   value |-> NoValue, now |-> 0]
PersistOp(persistentKey, hash, value, currentTime) ==
  [op |-> "persistCache", persistentKey |-> persistentKey, hash |-> hash,
   value |-> value, now |-> currentTime]

\* The store once the operations `ops` have completed in this order.
RECURSIVE Completed(_, _)
Completed(store, ops) ==
  IF ops = <<>> THEN store
  ELSE Completed(
         IF Head(ops).op = "persistCache"
           THEN PersistCache(store, Head(ops).persistentKey, Head(ops).hash,
                             Head(ops).value, Head(ops).now)
           ELSE RemoveCache(store, Head(ops).persistentKey, Head(ops).hash),
         Tail(ops))

\* The wrapper for target `t` of a factory whose removeCache and persistCache
\* are asynchronous and whose tryReadingCache reads the store as it is; the
\* target is synchronous and returns.  The wrapper awaits none of the
\* promises the callbacks return (`promise.catch(noop)`): the operations it
\* issued are in flight when it returns.
PCallAsyncBackend(t, hash) ==
  LET persistentKey == persistentKeyOf[t]
      m0 == caches[t]
      inMemory == MapHas(m0, hash)
      memoryHit == inMemory /\ IsFresh(now, MapGet(m0, hash).at, cacheDuration)
      stale == inMemory /\ ~memoryHit
      m1 == IF stale THEN MapDelete(m0, hash) ELSE m0
      ops1 == IF stale THEN <<RemoveOp(persistentKey, hash)>> ELSE <<>>
      persistentCache == TryReadingCache(persistentStore, persistentKey, hash)
      found == persistentCache # NoEntry
      backendHit == found /\ IsFresh(now, persistentCache.at, cacheDuration)
      ops2 == ops1 \o (IF found /\ ~backendHit THEN <<RemoveOp(persistentKey, hash)>>
                       ELSE <<>>)
      evict == Len(m1) >= maxCacheSizePerTarget /\ Len(m1) > 0
      m2 == EvictOldest(m1, maxCacheSizePerTarget)
      ops3 == ops2 \o (IF evict THEN <<RemoveOp(persistentKey, m1[1].key)>> ELSE <<>>)
      result == Len(invoked) + 1
      ops4 == ops3 \o <<PersistOp(persistentKey, hash, result, now)>>
      opsOf(issued) == [i \in DOMAIN issued |-> Op(issued[i].op, issued[i].hash)]
  IN
  /\ IF memoryHit
       THEN /\ pobs' = [target |-> t, key |-> hash, result |-> MapGet(m0, hash).value,
                        path |-> "hit", ops |-> <<>>, error |-> FALSE]
            /\ UNCHANGED <<caches, inflight, invoked>>
       ELSE IF backendHit
       THEN /\ caches' = [caches EXCEPT ![t] = CopyToMemory(m1, hash, persistentCache)]
            /\ inflight' = inflight \o ops1
            /\ pobs' = [target |-> t, key |-> hash, result |-> persistentCache.value,
                        path |-> "backend",
                        ops |-> opsOf(ops1) \o <<Op("tryReadingCache", hash)>>,
                        error |-> FALSE]
            /\ UNCHANGED invoked
       ELSE /\ Len(invoked) < MaxInvocations
            /\ invoked' = Append(invoked, [key |-> hash, kind |-> "value", target |-> t])
            /\ caches' = [caches EXCEPT ![t] = MapSet(m2, hash, result, now)]
            /\ inflight' = inflight \o ops4
            /\ pobs' = [target |-> t, key |-> hash, result |-> result, path |-> "miss",
                        ops |-> opsOf(ops1) \o <<Op("tryReadingCache", hash)>>
                                  \o opsOf(SubSeq(ops4, Len(ops1) + 1, Len(ops4))),
                        error |-> FALSE]
  /\ Len(inflight') <= MaxInflight
  /\ UNCHANGED <<twoLevelVars, oneVars, config, microtasks, osonVars, shaVars, now, memVars,
                 persistentKeyOf, failing, awaiting, persistentStore>>

\* One of the operations in flight completes, in whatever order they were issued.
Complete(i) ==
  /\ i \in DOMAIN inflight
  /\ persistentStore' = Completed(persistentStore, <<inflight[i]>>)
  /\ inflight' = [j \in 1..(Len(inflight) - 1) |-> IF j < i THEN inflight[j] ELSE inflight[j + 1]]
  /\ UNCHANGED <<twoLevelVars, oneVars, config, microtasks, osonVars, shaVars, now, invoked, memVars,
                 persistentKeyOf, failing, caches, awaiting, pobs>>

\* ------------------------------------- memoizeFactory of memoize.ts parts
\* The values of `this` and the keys calcKey derives from the arguments.
Receivers == {1, 2}
ArgsKeys == {1, 2}
ContextKinds == {"method", "getter"}

\* Map.prototype.set of the outer Map of the method branch, whose values are
\* the per-receiver Maps.
MapSetValue(m, k, v) ==
  IF MapHas(m, k)
    THEN [i \in DOMAIN m |-> IF m[i].key = k THEN [key |-> k, value |-> v] ELSE m[i]]
    ELSE Append(m, [key |-> k, value |-> v])

\* The wrapper of a method or function: cacheByThis maps `this` to the Map
\* of its keys.  A stale entry stays where it is until cacheByArgs.set.
MethodCall(this, key, outcome) ==
  LET known == MapHas(cacheByThis, this)
      cacheByArgs == IF known THEN MapGet(cacheByThis, this).value ELSE <<>>
      hit == /\ known
             /\ MapHas(cacheByArgs, key)
             /\ IsFresh(now, MapGet(cacheByArgs, key).at, cacheDuration)
      \* a new `this`: the oldest one makes room for its empty Map
      byThis == IF known THEN cacheByThis
                ELSE MapSetValue(EvictOldest(cacheByThis, maxCachedThisSize), this, <<>>)
      result == Len(invoked) + 1
  IN
  /\ contextKind = "method"
  /\ outcome \in OutcomesOf(targetKind)
  /\ IF hit
       THEN /\ tobs' = [this |-> this, key |-> key, path |-> "hit",
                        result |-> MapGet(cacheByArgs, key).value]
            /\ UNCHANGED <<cacheByThis, invoked>>
       ELSE /\ Len(invoked) < MaxInvocations
            /\ IF outcome = "threw"
                 THEN /\ cacheByThis' = byThis
                      /\ tobs' = [this |-> this, key |-> key, path |-> "threw",
                                  result |-> NoValue]
                      /\ UNCHANGED invoked
                 ELSE /\ invoked' = Append(invoked, [key |-> key, kind |-> outcome,
                                                     this |-> this])
                      /\ cacheByThis' =
                           MapSetValue(byThis, this,
                             MapSet(EvictOldest(cacheByArgs, maxCachedArgsSize),
                                    key, result, now))
                      /\ tobs' = [this |-> this, key |-> key, result |-> result,
                                  path |-> IF known /\ MapHas(cacheByArgs, key)
                                           THEN "stale" ELSE "miss"]
  /\ UNCHANGED <<config, inflight, microtasks, osonVars, shaVars, now, memVars, perVars, oneVars,
                 contextKind, maxCachedArgsSize, maxCachedThisSize>>

\* The wrapper of a getter: cacheByThis maps `this` to [value, cachedAt].
GetterCall(this, outcome) ==
  LET hit == /\ MapHas(cacheByThis, this)
             /\ IsFresh(now, MapGet(cacheByThis, this).at, cacheDuration)
      result == Len(invoked) + 1
  IN
  /\ contextKind = "getter"
  /\ outcome \in OutcomesOf(targetKind)
  /\ IF hit
       THEN /\ tobs' = [this |-> this, key |-> NoKey, path |-> "hit",
                        result |-> MapGet(cacheByThis, this).value]
            /\ UNCHANGED <<cacheByThis, invoked>>
       ELSE /\ Len(invoked) < MaxInvocations
            /\ IF outcome = "threw"
                 THEN /\ tobs' = [this |-> this, key |-> NoKey, path |-> "threw",
                                  result |-> NoValue]
                      /\ UNCHANGED <<cacheByThis, invoked>>
                 ELSE /\ invoked' = Append(invoked, [key |-> NoKey, kind |-> outcome,
                                                     this |-> this])
                      /\ cacheByThis' = MapSet(EvictOldest(cacheByThis, maxCachedThisSize),
                                               this, result, now)
                      /\ tobs' = [this |-> this, key |-> NoKey, result |-> result,
                                  path |-> IF MapHas(cacheByThis, this)
                                           THEN "stale" ELSE "miss"]
  /\ UNCHANGED <<config, inflight, microtasks, osonVars, shaVars, now, memVars, perVars, oneVars,
                 contextKind, maxCachedArgsSize, maxCachedThisSize>>

\* ------------------------------------------ memoizeOneFactory parts
\* What the cache key is derived from: the stringified `this` (the value of
\* its fields, the same for two instances with equal fields) and arguments.
Selves == {0, 1}
ArgLists == {1, 2}
KeyModes == {"hash", "emptyString"}

EmptyString == <<>>
Undefined == <<"undefined">>
\* lastCachedAt while undefined: `now - undefined` is NaN.
UndefinedAt == -1

\* sha3_512(JSON.stringify([self, args])): different for different inputs;
\* and the constant key.  Before each a faulty variant: a key that leaves
\* the arguments out, and a key that still tells the receivers apart.
GetCacheKeyOfSelfOnly(self, args) == <<self, 0>>
GetCacheKeyOfHash(self, args) == <<self, args>>
GetCacheKeyOfSelf(self, args) == <<self, self>>
GetCacheKeyOfEmptyString(self, args) == EmptyString
CacheKeyOf(self, args) ==
  IF getCacheKey = "emptyString" THEN GetCacheKeyOfEmptyString(self, args)
  ELSE GetCacheKeyOfHash(self, args)

\* `now - lastCachedAt > cacheDuration`: false when the difference is NaN.
OneExpired(t, cachedAt, d) == cachedAt # UndefinedAt /\ t - cachedAt > d

\* The wrapper of memoizeOneFactory.  lastHash is assigned before the
\* target is invoked, lastCache and lastCachedAt after it has returned.
OneCall(self, args, outcome) ==
  LET hash == CacheKeyOf(self, args) IN
  /\ outcome \in OutcomesOf(targetKind)
  /\ IF lastHash # hash \/ OneExpired(now, lastCachedAt, cacheDuration)
       THEN /\ Len(invoked) < MaxInvocations
            /\ lastHash' = hash
            /\ IF outcome = "threw"
                 THEN /\ oobs' = [self |-> self, args |-> args, key |-> hash,
                                  result |-> NoValue, path |-> "threw"]
                      /\ UNCHANGED <<lastCache, lastCachedAt, invoked>>
                 ELSE /\ invoked' = Append(invoked, [key |-> hash, kind |-> outcome])
                      /\ lastCache' = Len(invoked) + 1
                      /\ lastCachedAt' = now
                      /\ oobs' = [self |-> self, args |-> args, key |-> hash,
                                  result |-> Len(invoked) + 1, path |-> "miss"]
       ELSE /\ oobs' = [self |-> self, args |-> args, key |-> hash,
                        result |-> lastCache, path |-> "hit"]
            /\ UNCHANGED <<lastHash, lastCache, lastCachedAt, invoked>>
  /\ UNCHANGED <<config, inflight, microtasks, osonVars, shaVars, now, memVars, perVars, twoLevelVars, getCacheKey>>

\* ------------------------- memoizeFactory with its default getCacheKey
\* The receiver instances a decorated member is called on.  What
\* getCacheKey sees of a receiver is its fields (Selves), not its identity.
Instances == {1, 2}

\* The empty argument list `[]` the getter branch passes to getCacheKey.
NoArgs == 0

\* A faulty getCacheKey that leaves the receiver out of the key.
GetCacheKeyOfArgs(self, args) == <<0, args>>

\* getCacheKey(this, args) of memoizeFactory: getCacheKeyOfHash by default.
GetCacheKey(self, args) == GetCacheKeyOfHash(self, args)

\* The method branch of the wrapper, called on a receiver whose fields are
\* `self` with the argument list `args`.
ContextCall(self, args, outcome) == Call(GetCacheKey(self, args), outcome)

\* The key of `cache.set(hash, [result, now])`: the `hash` derived before the
\* target ran.  The faulty variant before it derives the key again from the
\* receiver as a target that increments a field has left it.
StoreKeyOfChanged(hash, self) == GetCacheKey(self + 1, NoArgs)
StoreKey(hash, self) == hash

\* The getter branch of the wrapper, read on the receiver instance `this`
\* whose fields are `self`, the target doing `outcome` if it is invoked.
Getter(this, self, outcome) ==
  LET hash == GetCacheKey(self, NoArgs) IN
  /\ outcome \in OutcomesOf(targetKind)
  /\ IF MapHas(cache, hash) /\ IsFresh(now, MapGet(cache, hash).at, cacheDuration)
       THEN /\ cache' = cache
            /\ obs' = [key |-> hash, result |-> MapGet(cache, hash).value, path |-> "hit",
                       this |-> this]
            /\ UNCHANGED invoked
       ELSE /\ Len(invoked) < MaxInvocations
            /\ IF outcome = "threw"
                 THEN /\ cache' = MapDelete(cache, hash)
                      /\ obs' = [key |-> hash, result |-> NoValue, path |-> "threw",
                                 this |-> this]
                      /\ UNCHANGED invoked
                 ELSE /\ invoked' = Append(invoked, [key |-> hash, kind |-> outcome,
                                                      this |-> this])
                      /\ cache' = MapSet(EvictOldest(MapDelete(cache, hash),
                                                     maxCacheSizePerTarget),
                                         StoreKey(hash, self), Len(invoked) + 1, now)
                      /\ obs' = [key |-> hash, result |-> Len(invoked) + 1,
                                 path |-> IF MapHas(cache, hash) THEN "stale" ELSE "miss",
                                 this |-> this]
  /\ UNCHANGED <<twoLevelVars, oneVars, config, inflight, microtasks, osonVars, shaVars, now, cleared, perVars>>

\* The receivers random1 = new RandomChild() and random2 = new RandomChild(10)
\* of the unit tests and their getter `count`, `return this._count++`: the
\* field _count of a receiver is its initial value plus the number of
\* invocations of the target on it.
InitialCount(this) == IF this = 1 THEN 1 ELSE 10
Count(this) ==
  InitialCount(this) + Cardinality({i \in DOMAIN invoked : invoked[i].this = this})

\* `random.count` is read through the wrapper.
ReadCount(this) == Getter(this, Count(this), "value")

\* --------------------------------------------------------- specifications
InitTwoLevel ==
  /\ contextKind \in ContextKinds
  /\ maxCachedArgsSize \in Capacities
  /\ maxCachedThisSize \in Capacities
  /\ cacheByThis = <<>>
  /\ tobs = [this |-> 0, key |-> NoKey, result |-> NoValue, path |-> "none"]

InitOne ==
  /\ getCacheKey \in KeyModes
  /\ lastCache = NoValue
  /\ lastCachedAt = UndefinedAt
  /\ lastHash = Undefined
  /\ oobs = [self |-> 0, args |-> 0, key |-> Undefined, result |-> NoValue, path |-> "none"]

\* memoize.ts and memoizeOne.ts while another wrapper is under study.
IdleTwoLevel ==
  /\ InitTwoLevel
  /\ contextKind = "method"
  /\ maxCachedArgsSize = 1
  /\ maxCachedThisSize = 1

IdleOne == InitOne /\ getCacheKey = "hash"

\* ------------------------------------------------- oson listify parts
\* The magic numbers of stringify.ts.
UNDEFINED_INDEX == -1
ARRAY_HOLE_INDEX == -2
NAN_INDEX == -3
POS_INF_INDEX == -4
NEG_INF_INDEX == -5

\* `null` as returned by toMagicNumber: no magic number.
NoMagic == 0
\* A slot of an object's record that `add` has not assigned yet.
UnfilledSlot == -9

\* The values listify is given.  The objects and arrays are references into
\* `graph`; everything else is a primitive, named by its source text.
Refs == {"r1", "r2"}
NumberValues == {"NaN", "Infinity", "-Infinity", "7"}
NonEncodable == {"function", "symbol"}
Hole == "hole"

\* typeof value
TypeOf(v) ==
  CASE v = "undefined" -> "undefined"
    [] v \in NumberValues -> "number"
    [] v = "k" -> "string"
    [] v = "true" -> "boolean"
    [] v = "null" \/ v \in Refs -> "object"
    [] v = "function" -> "function"
    [] v = "symbol" -> "symbol"

\* toMagicNumber, preceded by a faulty variant that knows undefined only.
ToMagicNumberOfUndefined(v) == IF v = "undefined" THEN UNDEFINED_INDEX ELSE NoMagic
ToMagicNumber(v) ==
  IF v = "undefined" THEN UNDEFINED_INDEX
  ELSE IF TypeOf(v) = "number" /\ v = "NaN" THEN NAN_INDEX
  ELSE IF TypeOf(v) = "number" /\ v \in {"Infinity", "-Infinity"}
    THEN (IF v = "-Infinity" THEN NEG_INF_INDEX ELSE POS_INF_INDEX)
  ELSE NoMagic

\* sparse(len): an array of len array-hole magic numbers.
Sparse(len) == [i \in 1..len |-> ARRAY_HOLE_INDEX]

\* The elements `value.entries()` yields for an array: one per index below
\* its length, a hole read as undefined.
Entries(slots) == [i \in DOMAIN slots |-> IF slots[i] = Hole THEN "undefined" ELSE slots[i]]

\* fromObject of a plain object: the label '' and its keys and values in turn
\* (the slots of an object of the graph are its Object.entries, flattened).
PLAIN_OBJECT_LABEL == ""
FromObject(node) == [label |-> PLAIN_OBJECT_LABEL, vals |-> node.slots]

\* What `list` holds at one position: a primitive, an array's record of
\* numbers, or an object's record of a label and numbers.
PrimitiveEntry(v) == [type |-> "primitive", prim |-> v, label |-> "", items |-> <<>>]
ArrayEntry(len) == [type |-> "array", prim |-> "", label |-> "", items |-> Sparse(len)]
ObjectEntry(label, len) ==
  [type |-> "object", prim |-> "", label |-> label, items |-> [i \in 1..len |-> UnfilledSlot]]

\* `arr[i] = num` for the record at `position` of the list.
Assign(l, position, i, num) == [l EXCEPT ![position + 1].items[i] = num]

\* `index.get(value)`, preceded by a faulty variant that never finds a value.
IndexGetNothing(m, v) == [found |-> FALSE, position |-> 0]
IndexGet(m, v) ==
  IF MapHas(m, v) THEN [found |-> TRUE, position |-> MapGet(m, v).value]
  ELSE [found |-> FALSE, position |-> 0]

\* The call of `add` that is running: on the top of `frames`.
Top == frames[Len(frames)]
\* The frames with `num` assigned to the slot the top frame is at.
Advanced == [frames EXCEPT ![Len(frames)].i = @ + 1]

\* listify(value) up to the return of add(value) for a root that is no
\* container, up to the first iteration over its elements for a container.
Listify ==
  LET num == ToMagicNumber(root)
      position == 0
  IN
  /\ returned.kind = "none"
  /\ frames = <<>>
  /\ oindex = <<>>
  /\ IF num # NoMagic
       THEN /\ returned' = [kind |-> "magic", num |-> num]
            /\ UNCHANGED <<olist, oindex, frames>>
       ELSE CASE TypeOf(root) \in {"number", "string", "boolean"} \/ root = "null" ->
                   /\ olist' = <<PrimitiveEntry(root)>>
                   /\ oindex' = MapSetValue(oindex, root, position)
                   /\ returned' = [kind |-> "list", num |-> 0]
                   /\ UNCHANGED frames
              [] root \in Refs /\ graph[root].kind = "array" ->
                   /\ olist' = <<ArrayEntry(Len(graph[root].slots))>>
                   /\ oindex' = MapSetValue(oindex, root, position)
                   /\ frames' = <<[position |-> position, i |-> 0,
                                   vals |-> Entries(graph[root].slots)]>>
                   /\ UNCHANGED returned
              [] root \in Refs /\ graph[root].kind = "object" ->
                   /\ olist' = <<ObjectEntry(FromObject(graph[root]).label,
                                             Len(FromObject(graph[root]).vals))>>
                   /\ oindex' = MapSetValue(oindex, root, position)
                   /\ frames' = <<[position |-> position, i |-> 0,
                                   vals |-> FromObject(graph[root]).vals]>>
                   /\ UNCHANGED returned
              [] OTHER ->
                   \* typeof value is 'function' or 'symbol': no case of the switch
                   /\ returned' = [kind |-> "list", num |-> 0]
                   /\ UNCHANGED <<olist, oindex, frames>>
  /\ UNCHANGED <<graph, root>>
  /\ UNCHANGED <<config, inflight, microtasks, now, invoked, memVars, perVars, twoLevelVars, oneVars, shaVars>>

\* One iteration of the loop over a container's elements: `arr[i] =
\* add(element)` for an element that is no container, the call of add up to
\* its first iteration for an element that is one.
Add ==
  LET element == Top.vals[Top.i + 1]
      num == ToMagicNumber(element)
      got == IndexGet(oindex, element)
      position == Len(olist)
  IN
  /\ frames # <<>>
  /\ Top.i < Len(Top.vals)
  /\ IF num # NoMagic
       THEN /\ olist' = Assign(olist, Top.position, Top.i + 1, num)
            /\ frames' = Advanced
            /\ UNCHANGED oindex
       ELSE IF got.found
         THEN /\ olist' = Assign(olist, Top.position, Top.i + 1, got.position)
              /\ frames' = Advanced
              /\ UNCHANGED oindex
         ELSE CASE TypeOf(element) \in {"number", "string", "boolean"} \/ element = "null" ->
                     /\ Len(olist) < MaxList
                     /\ olist' = Append(Assign(olist, Top.position, Top.i + 1, position),
                                        PrimitiveEntry(element))
                     /\ oindex' = MapSetValue(oindex, element, position)
                     /\ frames' = Advanced
                [] element \in Refs /\ graph[element].kind = "array" ->
                     /\ Len(olist) < MaxList
                     /\ olist' = Append(olist, ArrayEntry(Len(graph[element].slots)))
                     /\ oindex' = MapSetValue(oindex, element, position)
                     /\ frames' = Append(frames, [position |-> position, i |-> 0,
                                                  vals |-> Entries(graph[element].slots)])
                [] element \in Refs /\ graph[element].kind = "object" ->
                     /\ Len(olist) < MaxList
                     /\ olist' = Append(olist, ObjectEntry(FromObject(graph[element]).label,
                                                           Len(FromObject(graph[element]).vals)))
                     /\ oindex' = MapSetValue(oindex, element, position)
                     /\ frames' = Append(frames, [position |-> position, i |-> 0,
                                                  vals |-> FromObject(graph[element]).vals])
                [] OTHER ->
                     \* 'function' or 'symbol': add returns list.length, stores nothing
                     /\ olist' = Assign(olist, Top.position, Top.i + 1, position)
                     /\ frames' = Advanced
                     /\ UNCHANGED oindex
  /\ UNCHANGED <<graph, root, returned>>
  /\ UNCHANGED <<config, inflight, microtasks, now, invoked, memVars, perVars, twoLevelVars, oneVars, shaVars>>

\* add(container) has iterated over all elements and returns its position:
\* to the iteration of the enclosing container, or to listify, which
\* returns the list.
Return ==
  /\ frames # <<>>
  /\ Top.i = Len(Top.vals)
  /\ IF Len(frames) = 1
       THEN /\ frames' = <<>>
            /\ returned' = [kind |-> "list", num |-> 0]
            /\ UNCHANGED olist
       ELSE LET caller == frames[Len(frames) - 1] IN
            /\ olist' = Assign(olist, caller.position, caller.i + 1, Top.position)
            /\ frames' = [SubSeq(frames, 1, Len(frames) - 1)
                            EXCEPT ![Len(frames) - 1].i = @ + 1]
            /\ UNCHANGED returned
  /\ UNCHANGED <<graph, root, oindex>>
  /\ UNCHANGED <<config, inflight, microtasks, now, invoked, memVars, perVars, twoLevelVars, oneVars, shaVars>>

\* ------------------------------------------------------- sha3_512 parts
\* A 32-bit word is the set of the positions (0 the lowest) of its 1 bits;
\* `undefined` in a bitwise operation is the word 0.
\* The bits of an integer 0 <= x < 2^31.
Bits(x) == {i \in 0..30 : (x \div 2^i) % 2 = 1}
\* a ^ b, a | b, ~a & b, a << k, a >>> k
Xor(a, b) == (a \ b) \cup (b \ a)
Or(a, b) == a \cup b
AndNot(a, b) == b \ a
Shl(a, k) == {i + k : i \in {j \in a : j + k <= 31}}
Shr(a, k) == {i - k : i \in {j \in a : j >= k}}

HEX_CHARS == <<"0", "1", "2", "3", "4", "5", "6", "7", "8", "9", "a", "b", "c", "d", "e", "f">>
\* PADDING of SHA-3, preceded by the padding of the original Keccak.
KECCAK_PADDING == <<1, 256, 65536, 16777216>>
PADDING == <<6, 1536, 393216, 100663296>>
SHIFT == <<0, 8, 16, 24>>
\* RC, each constant as a word.
RC == <<
  {0}, {}, {1, 7, 15}, {}, {1, 3, 7, 15}, {31}, {15, 31}, {31}, {0, 1, 3, 7,
  15}, {}, {0, 31}, {}, {0, 7, 15, 31}, {31}, {0, 3, 15}, {31}, {1, 3, 7},
  {}, {3, 7}, {}, {0, 3, 15, 31}, {}, {1, 3, 31}, {}, {0, 1, 3, 7, 15, 31},
  {}, {0, 1, 3, 7}, {31}, {0, 3, 7, 15}, {31}, {0, 1, 15}, {31}, {1, 15},
  {31}, {7}, {31}, {1, 3, 15}, {}, {1, 3, 31}, {31}, {0, 7, 15, 31}, {31},
  {7, 15}, {31}, {0, 31}, {}, {3, 15, 31}, {31}>>

\* The fields the constructor derives for new Keccak(512, PADDING, 512).
blockCount == (1600 - 512 * 2) \div 32
byteCount == blockCount * 4
outputBlocks == 512 \div 32
extraBytes == (512 % 32) \div 8

\* One iteration of the loop of f: the state after the round that uses
\* RC[n] and RC[n + 1] (s[i] of the source is s[i + 1] here).
Round(s, n) ==
  LET
    c0 == Xor(Xor(Xor(Xor(s[1], s[11]), s[21]), s[31]), s[41])
    c1 == Xor(Xor(Xor(Xor(s[2], s[12]), s[22]), s[32]), s[42])
    c2 == Xor(Xor(Xor(Xor(s[3], s[13]), s[23]), s[33]), s[43])
    c3 == Xor(Xor(Xor(Xor(s[4], s[14]), s[24]), s[34]), s[44])
    c4 == Xor(Xor(Xor(Xor(s[5], s[15]), s[25]), s[35]), s[45])
    c5 == Xor(Xor(Xor(Xor(s[6], s[16]), s[26]), s[36]), s[46])
    c6 == Xor(Xor(Xor(Xor(s[7], s[17]), s[27]), s[37]), s[47])
    c7 == Xor(Xor(Xor(Xor(s[8], s[18]), s[28]), s[38]), s[48])
    c8 == Xor(Xor(Xor(Xor(s[9], s[19]), s[29]), s[39]), s[49])
    c9 == Xor(Xor(Xor(Xor(s[10], s[20]), s[30]), s[40]), s[50])
    h_1 == Xor(c8, Or(Shl(c2, 1), Shr(c3, 31)))
    l_1 == Xor(c9, Or(Shl(c3, 1), Shr(c2, 31)))
    s_0_1 == Xor(s[1], h_1)
    s_1_1 == Xor(s[2], l_1)
    s_10_1 == Xor(s[11], h_1)
    s_11_1 == Xor(s[12], l_1)
    s_20_1 == Xor(s[21], h_1)
    s_21_1 == Xor(s[22], l_1)
    s_30_1 == Xor(s[31], h_1)
    s_31_1 == Xor(s[32], l_1)
    s_40_1 == Xor(s[41], h_1)
    s_41_1 == Xor(s[42], l_1)
    h_2 == Xor(c0, Or(Shl(c4, 1), Shr(c5, 31)))
    l_2 == Xor(c1, Or(Shl(c5, 1), Shr(c4, 31)))
    s_2_1 == Xor(s[3], h_2)
    s_3_1 == Xor(s[4], l_2)
    s_12_1 == Xor(s[13], h_2)
    s_13_1 == Xor(s[14], l_2)
    s_22_1 == Xor(s[23], h_2)
    s_23_1 == Xor(s[24], l_2)
    s_32_1 == Xor(s[33], h_2)
    s_33_1 == Xor(s[34], l_2)
    s_42_1 == Xor(s[43], h_2)
    s_43_1 == Xor(s[44], l_2)
    h_3 == Xor(c2, Or(Shl(c6, 1), Shr(c7, 31)))
    l_3 == Xor(c3, Or(Shl(c7, 1), Shr(c6, 31)))
    s_4_1 == Xor(s[5], h_3)
    s_5_1 == Xor(s[6], l_3)
    s_14_1 == Xor(s[15], h_3)
    s_15_1 == Xor(s[16], l_3)
    s_24_1 == Xor(s[25], h_3)
    s_25_1 == Xor(s[26], l_3)
    s_34_1 == Xor(s[35], h_3)
    s_35_1 == Xor(s[36], l_3)
    s_44_1 == Xor(s[45], h_3)
    s_45_1 == Xor(s[46], l_3)
    h_4 == Xor(c4, Or(Shl(c8, 1), Shr(c9, 31)))
    l_4 == Xor(c5, Or(Shl(c9, 1), Shr(c8, 31)))
    s_6_1 == Xor(s[7], h_4)
    s_7_1 == Xor(s[8], l_4)
    s_16_1 == Xor(s[17], h_4)
    s_17_1 == Xor(s[18], l_4)
    s_26_1 == Xor(s[27], h_4)
    s_27_1 == Xor(s[28], l_4)
    s_36_1 == Xor(s[37], h_4)
    s_37_1 == Xor(s[38], l_4)
    s_46_1 == Xor(s[47], h_4)
    s_47_1 == Xor(s[48], l_4)
    h_5 == Xor(c6, Or(Shl(c0, 1), Shr(c1, 31)))
    l_5 == Xor(c7, Or(Shl(c1, 1), Shr(c0, 31)))
    s_8_1 == Xor(s[9], h_5)
    s_9_1 == Xor(s[10], l_5)
    s_18_1 == Xor(s[19], h_5)
    s_19_1 == Xor(s[20], l_5)
    s_28_1 == Xor(s[29], h_5)
    s_29_1 == Xor(s[30], l_5)
    s_38_1 == Xor(s[39], h_5)
    s_39_1 == Xor(s[40], l_5)
    s_48_1 == Xor(s[49], h_5)
    s_49_1 == Xor(s[50], l_5)
    b0 == s_0_1
    b1 == s_1_1
    b32 == Or(Shl(s_11_1, 4), Shr(s_10_1, 28))
    b33 == Or(Shl(s_10_1, 4), Shr(s_11_1, 28))
    b14 == Or(Shl(s_20_1, 3), Shr(s_21_1, 29))
    b15 == Or(Shl(s_21_1, 3), Shr(s_20_1, 29))
    b46 == Or(Shl(s_31_1, 9), Shr(s_30_1, 23))
    b47 == Or(Shl(s_30_1, 9), Shr(s_31_1, 23))
    b28 == Or(Shl(s_40_1, 18), Shr(s_41_1, 14))
    b29 == Or(Shl(s_41_1, 18), Shr(s_40_1, 14))
    b20 == Or(Shl(s_2_1, 1), Shr(s_3_1, 31))
    b21 == Or(Shl(s_3_1, 1), Shr(s_2_1, 31))
    b2 == Or(Shl(s_13_1, 12), Shr(s_12_1, 20))
    b3 == Or(Shl(s_12_1, 12), Shr(s_13_1, 20))
    b34 == Or(Shl(s_22_1, 10), Shr(s_23_1, 22))
    b35 == Or(Shl(s_23_1, 10), Shr(s_22_1, 22))
    b16 == Or(Shl(s_33_1, 13), Shr(s_32_1, 19))
    b17 == Or(Shl(s_32_1, 13), Shr(s_33_1, 19))
    b48 == Or(Shl(s_42_1, 2), Shr(s_43_1, 30))
    b49 == Or(Shl(s_43_1, 2), Shr(s_42_1, 30))
    b40 == Or(Shl(s_5_1, 30), Shr(s_4_1, 2))
    b41 == Or(Shl(s_4_1, 30), Shr(s_5_1, 2))
    b22 == Or(Shl(s_14_1, 6), Shr(s_15_1, 26))
    b23 == Or(Shl(s_15_1, 6), Shr(s_14_1, 26))
    b4 == Or(Shl(s_25_1, 11), Shr(s_24_1, 21))
    b5 == Or(Shl(s_24_1, 11), Shr(s_25_1, 21))
    b36 == Or(Shl(s_34_1, 15), Shr(s_35_1, 17))
    b37 == Or(Shl(s_35_1, 15), Shr(s_34_1, 17))
    b18 == Or(Shl(s_45_1, 29), Shr(s_44_1, 3))
    b19 == Or(Shl(s_44_1, 29), Shr(s_45_1, 3))
    b10 == Or(Shl(s_6_1, 28), Shr(s_7_1, 4))
    b11 == Or(Shl(s_7_1, 28), Shr(s_6_1, 4))
    b42 == Or(Shl(s_17_1, 23), Shr(s_16_1, 9))
    b43 == Or(Shl(s_16_1, 23), Shr(s_17_1, 9))
    b24 == Or(Shl(s_26_1, 25), Shr(s_27_1, 7))
    b25 == Or(Shl(s_27_1, 25), Shr(s_26_1, 7))
    b6 == Or(Shl(s_36_1, 21), Shr(s_37_1, 11))
    b7 == Or(Shl(s_37_1, 21), Shr(s_36_1, 11))
    b38 == Or(Shl(s_47_1, 24), Shr(s_46_1, 8))
    b39 == Or(Shl(s_46_1, 24), Shr(s_47_1, 8))
    b30 == Or(Shl(s_8_1, 27), Shr(s_9_1, 5))
    b31 == Or(Shl(s_9_1, 27), Shr(s_8_1, 5))
    b12 == Or(Shl(s_18_1, 20), Shr(s_19_1, 12))
    b13 == Or(Shl(s_19_1, 20), Shr(s_18_1, 12))
    b44 == Or(Shl(s_29_1, 7), Shr(s_28_1, 25))
    b45 == Or(Shl(s_28_1, 7), Shr(s_29_1, 25))
    b26 == Or(Shl(s_38_1, 8), Shr(s_39_1, 24))
    b27 == Or(Shl(s_39_1, 8), Shr(s_38_1, 24))
    b8 == Or(Shl(s_48_1, 14), Shr(s_49_1, 18))
    b9 == Or(Shl(s_49_1, 14), Shr(s_48_1, 18))
    s_0_2 == Xor(b0, AndNot(b2, b4))
    s_1_2 == Xor(b1, AndNot(b3, b5))
    s_10_2 == Xor(b10, AndNot(b12, b14))
    s_11_2 == Xor(b11, AndNot(b13, b15))
    s_20_2 == Xor(b20, AndNot(b22, b24))
    s_21_2 == Xor(b21, AndNot(b23, b25))
    s_30_2 == Xor(b30, AndNot(b32, b34))
    s_31_2 == Xor(b31, AndNot(b33, b35))
    s_40_2 == Xor(b40, AndNot(b42, b44))
    s_41_2 == Xor(b41, AndNot(b43, b45))
    s_2_2 == Xor(b2, AndNot(b4, b6))
    s_3_2 == Xor(b3, AndNot(b5, b7))
    s_12_2 == Xor(b12, AndNot(b14, b16))
    s_13_2 == Xor(b13, AndNot(b15, b17))
    s_22_2 == Xor(b22, AndNot(b24, b26))
    s_23_2 == Xor(b23, AndNot(b25, b27))
    s_32_2 == Xor(b32, AndNot(b34, b36))
    s_33_2 == Xor(b33, AndNot(b35, b37))
    s_42_2 == Xor(b42, AndNot(b44, b46))
    s_43_2 == Xor(b43, AndNot(b45, b47))
    s_4_2 == Xor(b4, AndNot(b6, b8))
    s_5_2 == Xor(b5, AndNot(b7, b9))
    s_14_2 == Xor(b14, AndNot(b16, b18))
    s_15_2 == Xor(b15, AndNot(b17, b19))
    s_24_2 == Xor(b24, AndNot(b26, b28))
    s_25_2 == Xor(b25, AndNot(b27, b29))
    s_34_2 == Xor(b34, AndNot(b36, b38))
    s_35_2 == Xor(b35, AndNot(b37, b39))
    s_44_2 == Xor(b44, AndNot(b46, b48))
    s_45_2 == Xor(b45, AndNot(b47, b49))
    s_6_2 == Xor(b6, AndNot(b8, b0))
    s_7_2 == Xor(b7, AndNot(b9, b1))
    s_16_2 == Xor(b16, AndNot(b18, b10))
    s_17_2 == Xor(b17, AndNot(b19, b11))
    s_26_2 == Xor(b26, AndNot(b28, b20))
    s_27_2 == Xor(b27, AndNot(b29, b21))
    s_36_2 == Xor(b36, AndNot(b38, b30))
    s_37_2 == Xor(b37, AndNot(b39, b31))
    s_46_2 == Xor(b46, AndNot(b48, b40))
    s_47_2 == Xor(b47, AndNot(b49, b41))
    s_8_2 == Xor(b8, AndNot(b0, b2))
    s_9_2 == Xor(b9, AndNot(b1, b3))
    s_18_2 == Xor(b18, AndNot(b10, b12))
    s_19_2 == Xor(b19, AndNot(b11, b13))
    s_28_2 == Xor(b28, AndNot(b20, b22))
    s_29_2 == Xor(b29, AndNot(b21, b23))
    s_38_2 == Xor(b38, AndNot(b30, b32))
    s_39_2 == Xor(b39, AndNot(b31, b33))
    s_48_2 == Xor(b48, AndNot(b40, b42))
    s_49_2 == Xor(b49, AndNot(b41, b43))
    s_0_3 == Xor(s_0_2, RC[n + 1])
    s_1_3 == Xor(s_1_2, RC[n + 2])
  IN
    <<s_0_3, s_1_3, s_2_2, s_3_2, s_4_2, s_5_2, s_6_2, s_7_2, s_8_2, s_9_2,
    s_10_2, s_11_2, s_12_2, s_13_2, s_14_2, s_15_2, s_16_2, s_17_2, s_18_2,
    s_19_2, s_20_2, s_21_2, s_22_2, s_23_2, s_24_2, s_25_2, s_26_2, s_27_2,
    s_28_2, s_29_2, s_30_2, s_31_2, s_32_2, s_33_2, s_34_2, s_35_2, s_36_2,
    s_37_2, s_38_2, s_39_2, s_40_2, s_41_2, s_42_2, s_43_2, s_44_2, s_45_2,
    s_46_2, s_47_2, s_48_2, s_49_2>>

\* new Keccak(512, PADDING, 512)
NewKeccak ==
  [blocks |-> [i \in 1..(blockCount + 1) |-> {}], s |-> [i \in 1..50 |-> {}],
   reset |-> TRUE, finalized |-> FALSE, block |-> {}, start |-> 0, lastByteIndex |-> 0]

\* The Keccak object a call of sha3_512 works on: a new one.  The faulty
\* variant before it keeps the sponge state `s` of the call before.
ConstructOnce(old, calls) == IF calls = 0 THEN NewKeccak ELSE [NewKeccak EXCEPT !.s = old.s]
Construct(old, calls) == NewKeccak

\* message.codePointAt(index) of a string given by its UTF-16 code units.
CodePointAt(message, idx) ==
  LET unit == message[idx + 1] IN
  IF /\ unit >= 55296 /\ unit <= 56319
     /\ idx + 2 <= Len(message)
     /\ message[idx + 2] >= 56320 /\ message[idx + 2] <= 57343
    THEN (unit - 55296) * 1024 + (message[idx + 2] - 56320) + 65536
    ELSE unit

\* blocks[i >> 2] |= byte << SHIFT[i & 3]
OrByte(blocks, i, byte) ==
  [blocks EXCEPT ![(i \div 4) + 1] = Or(@, Shl(byte, SHIFT[(i % 4) + 1]))]

\* One iteration of the inner loop of update: the bytes of the code point at
\* idx are put into blocks from byte i on.  `ored` lists the values that are
\* shifted and OR-ed into the blocks, in order; `index` is the index of the
\* next iteration.
PutCodePoint(blocks, i, idx, message) ==
  LET code == CodePointAt(message, idx) IN
  IF code < 128
    THEN LET b1 == Bits(code) IN
         [blocks |-> OrByte(blocks, i, b1), i |-> i + 1, index |-> idx + 1,
          ored |-> <<b1>>]
  ELSE IF code < 2048
    THEN LET b1 == Or(Bits(192), Bits(code \div 64))
             b2 == Or(Bits(128), Bits(code % 64))
         IN
         [blocks |-> OrByte(OrByte(blocks, i, b1), i + 1, b2),
          i |-> i + 2, index |-> idx + 1, ored |-> <<b1, b2>>]
  ELSE IF code < 55296 \/ code >= 57344
    THEN LET b1 == Or(Bits(224), Bits(code \div 4096))
             b2 == Or(Bits(128), Bits((code \div 64) % 64))
             b3 == Or(Bits(128), Bits(code % 64))
         IN
         [blocks |-> OrByte(OrByte(OrByte(blocks, i, b1), i + 1, b2), i + 2, b3),
          i |-> i + 3, index |-> idx + 1, ored |-> <<b1, b2, b3>>]
  ELSE LET next == IF idx + 1 < Len(message) THEN CodePointAt(message, idx + 1) ELSE 0
           pair == 65536 + (code % 1024) * 1024 + (next % 1024)
           b1 == Or(Bits(240), Bits(pair \div 262144))
           b2 == Or(Bits(128), Bits((pair \div 4096) % 64))
           b3 == Or(Bits(128), Bits((pair \div 64) % 64))
           b4 == Or(Bits(128), Bits(pair % 64))
       IN
       [blocks |-> OrByte(OrByte(OrByte(OrByte(blocks, i, b1), i + 1, b2), i + 2, b3),
                          i + 3, b4),
        i |-> i + 4, index |-> idx + 2, ored |-> <<b1, b2, b3, b4>>]

\* `for (i = 0; i < blockCount; ++i) s[i] ^= blocks[i]`
Absorb(s, blocks) == [i \in 1..50 |-> IF i <= blockCount THEN Xor(s[i], blocks[i]) ELSE s[i]]

\* The eight hex digits hex() appends for one word of the state.
Nibble(w, k) ==
  (IF k \in w THEN 1 ELSE 0) + (IF k + 1 \in w THEN 2 ELSE 0)
    + (IF k + 2 \in w THEN 4 ELSE 0) + (IF k + 3 \in w THEN 8 ELSE 0)
HexOfBlock(block) ==
  <<HEX_CHARS[Nibble(block, 4) + 1], HEX_CHARS[Nibble(block, 0) + 1],
    HEX_CHARS[Nibble(block, 12) + 1], HEX_CHARS[Nibble(block, 8) + 1],
    HEX_CHARS[Nibble(block, 20) + 1], HEX_CHARS[Nibble(block, 16) + 1],
    HEX_CHARS[Nibble(block, 28) + 1], HEX_CHARS[Nibble(block, 24) + 1]>>
\* The loop of hex() from word j on; outputBlocks < blockCount, so the state
\* is not permuted again, and extraBytes = 0.
RECURSIVE HexFrom(_, _)
HexFrom(s, j) == IF j < outputBlocks THEN HexOfBlock(s[j + 1]) \o HexFrom(s, j + 1) ELSE <<>>


\* sha3_512(message): the Keccak object is constructed and update begins.
Sha3_512(message) ==
  /\ sha.pc = "idle"
  /\ Len(digests) < MaxCalls
  /\ keccak' = Construct(keccak, Len(digests))
  /\ sha' = [pc |-> "update", message |-> message, index |-> 0, i |-> 0, n |-> 0,
             then |-> "update", ored |-> <<>>]
  /\ UNCHANGED <<digests, cyrb, cyrbKeys>>
  /\ UNCHANGED <<config, inflight, microtasks, now, invoked, memVars, perVars, twoLevelVars, oneVars, osonVars>>

\* One iteration of the inner loop of update, for the code point at
\* sha.index, with what the outer loop does around it: before the first
\* code point of a block the block is reset; after the last one (the block
\* is full or the message has ended) lastByteIndex and start are set, and a
\* full block is absorbed into the state, which f then permutes (`reset =
\* true`, read by the next iteration only, is set here).
Update ==
  LET blocks == IF keccak.reset
                  THEN [i \in 1..(blockCount + 1) |-> IF i = 1 THEN keccak.block ELSE {}]
                  ELSE keccak.blocks
      put == PutCodePoint(blocks, sha.i, sha.index, sha.message)
  IN
  /\ sha.pc = "update"
  /\ sha.index < Len(sha.message)
  /\ IF put.index < Len(sha.message) /\ put.i < byteCount
       THEN /\ keccak' = [keccak EXCEPT !.blocks = put.blocks, !.reset = FALSE]
            /\ sha' = [sha EXCEPT !.ored = @ \o put.ored, !.index = put.index, !.i = put.i]
       ELSE IF put.i >= byteCount
         THEN /\ keccak' = [keccak EXCEPT !.blocks = put.blocks,
                                          !.lastByteIndex = put.i,
                                          !.start = put.i - byteCount,
                                          !.block = put.blocks[blockCount + 1],
                                          !.s = Absorb(keccak.s, put.blocks),
                                          !.reset = TRUE]
              /\ sha' = [sha EXCEPT !.ored = @ \o put.ored, !.index = put.index, !.i = put.i - byteCount,
                                    !.pc = "f", !.n = 0, !.then = "update"]
         ELSE /\ keccak' = [keccak EXCEPT !.blocks = put.blocks,
                                          !.lastByteIndex = put.i,
                                          !.start = put.i,
                                          !.reset = FALSE]
              /\ sha' = [sha EXCEPT !.ored = @ \o put.ored, !.index = put.index, !.i = put.i]
  /\ UNCHANGED <<digests, cyrb, cyrbKeys>>
  /\ UNCHANGED <<config, inflight, microtasks, now, invoked, memVars, perVars, twoLevelVars, oneVars, osonVars>>

\* update has returned and hex calls finalize: the padding is put into the
\* block, the block is absorbed and f permutes the state.
Finalize ==
  LET i == keccak.lastByteIndex
      padded == [keccak.blocks EXCEPT ![(i \div 4) + 1] = Or(@, Bits(PADDING[(i % 4) + 1]))]
      blocks == IF keccak.lastByteIndex = byteCount
                  THEN [j \in 1..(blockCount + 1) |->
                          IF j = 1 THEN padded[blockCount + 1] ELSE {}]
                  ELSE padded
      closed == [blocks EXCEPT ![blockCount] = Or(@, {31})]
  IN
  /\ sha.pc = "update"
  /\ sha.index >= Len(sha.message)
  /\ ~keccak.finalized
  /\ keccak' = [keccak EXCEPT !.finalized = TRUE, !.blocks = closed,
                              !.s = Absorb(keccak.s, closed)]
  /\ sha' = [sha EXCEPT !.pc = "f", !.n = 0, !.then = "hex"]
  /\ UNCHANGED <<digests, cyrb, cyrbKeys>>
  /\ UNCHANGED <<config, inflight, microtasks, now, invoked, memVars, perVars, twoLevelVars, oneVars, osonVars>>

\* One iteration of the loop of f.
F ==
  /\ sha.pc = "f"
  /\ keccak' = [keccak EXCEPT !.s = Round(keccak.s, sha.n)]
  /\ sha' = IF sha.n + 2 < 48 THEN [sha EXCEPT !.n = @ + 2]
                              ELSE [sha EXCEPT !.n = 0, !.pc = sha.then]
  /\ UNCHANGED <<digests, cyrb, cyrbKeys>>
  /\ UNCHANGED <<config, inflight, microtasks, now, invoked, memVars, perVars, twoLevelVars, oneVars, osonVars>>

\* hex() after finalize: the digits of the first outputBlocks words of the
\* state are what sha3_512 returns.
Hex ==
  /\ sha.pc = "hex"
  /\ digests' = Append(digests, [message |-> sha.message, hex |-> HexFrom(keccak.s, 0)])
  /\ sha' = [sha EXCEPT !.pc = "idle"]
  /\ UNCHANGED <<keccak, cyrb, cyrbKeys>>
  /\ UNCHANGED <<config, inflight, microtasks, now, invoked, memVars, perVars, twoLevelVars, oneVars, osonVars>>

\* ------------------------------------------------ cyrb64HashWithLength parts
\* A 32-bit number as its two 16-bit halves <<high, low>>.
WordOf(n) == <<n \div 65536, n % 65536>>

\* a ^ b of two numbers below 2^n, and of two words
RECURSIVE XorBits(_, _, _)
XorBits(a, b, n) ==
  IF n = 0 THEN 0 ELSE ((a + b) % 2) + 2 * XorBits(a \div 2, b \div 2, n - 1)
XorWord(a, b) == <<XorBits(a[1], b[1], 16), XorBits(a[2], b[2], 16)>>

\* h ^ ch for a code point ch (below 2^21)
XorCodePoint(h, ch) == XorWord(h, WordOf(ch))

\* a >>> k
ShrWord(a, k) ==
  IF k >= 16 THEN <<0, a[1] \div 2^(k - 16)>>
  ELSE <<a[1] \div 2^k, (a[1] % 2^k) * 2^(16 - k) + (a[2] \div 2^k)>>

\* The product of two numbers below 2^16, as a word.
Mul16(x, y) ==
  LET p == x * (y \div 256)
      q == x * (y % 256)
      low == (p % 256) * 256 + q
  IN <<(p \div 256) + (low \div 65536), low % 65536>>

\* Math.imul(a, b): the low 32 bits of the product.
Imul(a, b) ==
  LET ll == Mul16(a[2], b[2]) IN
  <<(ll[1] + Mul16(a[1], b[2])[2] + Mul16(a[2], b[1])[2]) % 65536, ll[2]>>

\* cyrb64: <<h1, h2>> before the loop, after one iteration of it on the code
\* point ch, and the pair [h2 >>> 0, h1 >>> 0] returned after the loop.
Cyrb64Seeded(seed) ==
  <<XorWord(<<57005, 48879>>, WordOf(seed)), XorWord(<<16838, 52823>>, WordOf(seed))>>
Cyrb64Iterate(h, ch) ==
  <<Imul(XorCodePoint(h[1], ch), <<40503, 31153>>),
    Imul(XorCodePoint(h[2], ch), <<24373, 25749>>)>>
Cyrb64Mixed(h) ==
  LET a1 == Imul(XorWord(h[1], ShrWord(h[1], 16)), <<34283, 51819>>)
      b1 == XorWord(a1, Imul(XorWord(h[2], ShrWord(h[2], 13)), <<49842, 44597>>))
      a2 == Imul(XorWord(h[2], ShrWord(h[2], 16)), <<34283, 51819>>)
      b2 == XorWord(a2, Imul(XorWord(b1, ShrWord(b1, 13)), <<49842, 44597>>))
  IN <<b2, b1>>

\* Number.prototype.toString(36) of a number below 2^32.
Digits36 ==
  <<"0", "1", "2", "3", "4", "5", "6", "7", "8", "9", "a", "b", "c", "d", "e", "f", "g", "h",
    "i", "j", "k", "l", "m", "n", "o", "p", "q", "r", "s", "t", "u", "v", "w", "x", "y", "z">>
RECURSIVE ToString36From(_)
ToString36From(w) ==
  IF w = <<0, 0>> THEN <<>>
  ELSE LET rest == (w[1] % 36) * 65536 + w[2] IN
       ToString36From(<<w[1] \div 36, rest \div 36>>) \o <<Digits36[(rest % 36) + 1]>>
ToString36(w) == IF w = <<0, 0>> THEN <<"0">> ELSE ToString36From(w)

\* String.prototype.padStart, preceded by a faulty variant that pads nothing.
PadNothing(s, targetLength, padString) == s
PadStart(s, targetLength, padString) ==
  IF Len(s) >= targetLength THEN s
  ELSE [i \in 1..(targetLength - Len(s)) |-> padString] \o s

\* What cyrb64HashWithLength returns for a string of `length` UTF-16 units
\* for which cyrb64 returned [h2, h1].
KeyOf(length, h2, h1) ==
  ToString36(WordOf(length)) \o PadStart(ToString36(h2), 7, "0")
    \o PadStart(ToString36(h1), 7, "0")

\* cyrb64HashWithLength(str, seed) is called: cyrb64 begins.
Cyrb64HashWithLength(str, seed) ==
  /\ cyrb.pc = "idle"
  /\ Len(cyrbKeys) < MaxCalls
  /\ cyrb' = [pc |-> "loop", str |-> str, seed |-> seed, i |-> 0, h |-> Cyrb64Seeded(seed)]
  /\ UNCHANGED <<keccak, sha, digests, cyrbKeys>>
  /\ UNCHANGED <<config, inflight, microtasks, now, invoked, memVars, perVars, twoLevelVars, oneVars, osonVars>>

\* One iteration of the loop of cyrb64.
Cyrb64 ==
  /\ cyrb.pc = "loop"
  /\ cyrb.i < Len(cyrb.str)
  /\ cyrb' = [cyrb EXCEPT !.i = @ + 1,
                          !.h = Cyrb64Iterate(cyrb.h, CodePointAt(cyrb.str, cyrb.i))]
  /\ UNCHANGED <<keccak, sha, digests, cyrbKeys>>
  /\ UNCHANGED <<config, inflight, microtasks, now, invoked, memVars, perVars, twoLevelVars, oneVars, osonVars>>

\* The loop has ended: cyrb64 returns and cyrb64HashWithLength returns the key.
Cyrb64Return ==
  LET mixed == Cyrb64Mixed(cyrb.h) IN
  /\ cyrb.pc = "loop"
  /\ cyrb.i >= Len(cyrb.str)
  /\ cyrbKeys' = Append(cyrbKeys, [str |-> cyrb.str, seed |-> cyrb.seed,
                                   halves |-> <<ToString36(mixed[1]), ToString36(mixed[2])>>,
                                   key |-> KeyOf(Len(cyrb.str), mixed[1], mixed[2])])
  /\ cyrb' = [cyrb EXCEPT !.pc = "idle"]
  /\ UNCHANGED <<keccak, sha, digests>>
  /\ UNCHANGED <<config, inflight, microtasks, now, invoked, memVars, perVars, twoLevelVars, oneVars, osonVars>>

\* listify and sha3_512 while a memoization wrapper is under study.
IdleOson ==
  /\ graph = <<>>
  /\ root = "undefined"
  /\ olist = <<>>
  /\ oindex = <<>>
  /\ frames = <<>>
  /\ returned = [kind |-> "none", num |-> 0]

IdleSha ==
  /\ keccak = <<>>
  /\ sha = <<>>
  /\ digests = <<>>
  /\ cyrb = [pc |-> "idle", str |-> <<>>, seed |-> 0, i |-> 0, h |-> <<<<0, 0>>, <<0, 0>>>>]
  /\ cyrbKeys = <<>>

InitShared ==
  /\ inflight = <<>>
  /\ microtasks = <<>>
  /\ cacheDuration \in Durations
  /\ maxCacheSizePerTarget \in Capacities
  /\ targetKind \in TargetKinds
  /\ now = 0
  /\ invoked = <<>>

InitMem ==
  /\ cache = <<>>
  /\ cleared = FALSE
  /\ obs = [key |-> NoKey, result |-> NoValue, path |-> "none"]

\* The persistent factory and its backend before the first call; `given`
\* tells whether the options hold a `caches` list.
InitPerOption(given) ==
  /\ cachesOption = given
  /\ persistentKeyOf \in [PTargets -> PersistentKeys]
  /\ failing \in SUBSET BackendOps
  /\ caches = [t \in PTargets |-> <<>>]
  /\ persistentStore = <<>>
  /\ awaiting = <<>>
  /\ pobs = [target |-> 0, key |-> NoKey, result |-> NoValue, path |-> "none", ops |-> <<>>,
             error |-> FALSE]

\* The factory of the unit tests, `memoizeWithPersistentCacheFactory({ caches, ... })`.
InitPer == InitPerOption(TRUE)

\* The persistent parts while memoizeFactory alone is under study.
IdlePer ==
  /\ persistentKeyOf = [t \in PTargets |-> "nextInteger"]
  /\ failing = {}

InitFactory == InitShared /\ IdleOson /\ IdleSha /\ InitMem /\ InitPer /\ IdlePer /\ IdleTwoLevel /\ IdleOne

Init == InitFactory /\ targetKind = "sync"

InitAsync == InitFactory /\ targetKind = "async"

\* memoizeFactory around a synchronous target.
Next ==
  \/ \E hash \in Keys, outcome \in {"value", "threw"} : Call(hash, outcome)
  \/ Tick
  \/ Clear

Spec == Init /\ [][Next]_vars

\* memoizeFactory around an async target.
NextAsync ==
  \/ \E hash \in Keys : Call(hash, "pending") /\ Len(invoked') <= MaxPromises
  \/ \E v \in 1..MaxPromises, how \in {"resolved", "rejected"} : Settle(v, how)
  \/ Tick
  \/ Clear

SpecAsync == InitAsync /\ [][NextAsync]_vars

\* memoizeWithPersistentCacheFactory around one synchronous target, with the
\* backend of the unit tests.
InitPersistent ==
  /\ InitShared /\ IdleOson /\ IdleSha /\ InitMem /\ InitPer /\ IdleTwoLevel /\ IdleOne
  /\ targetKind = "sync"
  /\ failing = {}
  /\ persistentKeyOf = [t \in PTargets |-> "nextInteger"]

NextPersistent ==
  \/ \E hash \in PKeys, outcome \in {"value", "threw"} : PCall(1, hash, outcome)
  \/ Tick
  \/ PClear

SpecPersistent == InitPersistent /\ [][NextPersistent]_vars

\* memoizeWithPersistentCacheFactory around one synchronous target, with a
\* backend of which any of the three callbacks may be one that throws.  The
\* factory of the test 'ignore errors in persistCache, tryReadingCache and
\* removeCache' has no `caches` option, so that clearMemoryCaches leaves the
\* target's Map as it is; the factory with the option, under two of the
\* cacheDurations, makes the other initial states.
InitFailing ==
  /\ InitShared /\ IdleOson /\ IdleSha /\ InitMem /\ IdleTwoLevel /\ IdleOne
  /\ \E given \in BOOLEAN : InitPerOption(given)
  /\ cachesOption => cacheDuration \in {1, POSITIVE_INFINITY}
  /\ targetKind = "sync"
  /\ persistentKeyOf = [t \in PTargets |-> "nextInteger"]

NextFailing ==
  \/ \E hash \in PKeys, outcome \in {"value", "threw"} : PCall(1, hash, outcome)
  \/ Tick
  \/ PClear

SpecFailing == InitFailing /\ [][NextFailing]_vars

\* One synchronous target that returns wrapped by memoizeFactory and one
\* wrapped by memoizeWithPersistentCacheFactory, with the same options.
NextBoth ==
  \/ \E hash \in PKeys : Call(hash, "value")
  \/ \E hash \in PKeys : PCall(1, hash, "value")
  \/ Tick

SpecBoth == InitPersistent /\ [][NextBoth]_vars

\* Two synchronous targets that return, wrapped by one factory with the
\* same persistentKey and called with the same arguments.
NextShared ==
  \/ \E t \in PTargets, hash \in PKeys : PCall(t, hash, "value")
  \/ Tick

SpecShared == InitPersistent /\ [][NextShared]_vars

\* memoizeWithPersistentCacheFactory around one synchronous target that
\* returns, with an asynchronous backend whose operations complete in any
\* order.
NextAsyncBackend ==
  \/ \E hash \in PKeys : PCallAsyncBackend(1, hash)
  \/ \E i \in 1..MaxInflight : Complete(i)
  \/ Tick

SpecAsyncBackend == InitPersistent /\ [][NextAsyncBackend]_vars

\* memoizeWithPersistentCacheFactory around one async target, with the
\* backend of the unit tests.  The factory of the tests sets a finite
\* cacheDuration and no capacity, the default of 100 holding every key of
\* the calls: the capacities are one that holds the two keys together and
\* one that evicts at the second key; the durations are a finite one, after
\* which entries go stale, and the default.
AsyncCapacities == {1, Cardinality(PKeys)}
AsyncDurations == {1, POSITIVE_INFINITY}
InitPersistentAsync ==
  /\ InitShared /\ IdleOson /\ IdleSha /\ InitMem /\ InitPer /\ IdleTwoLevel /\ IdleOne
  /\ maxCacheSizePerTarget \in AsyncCapacities
  /\ cacheDuration \in AsyncDurations
  /\ targetKind = "async"
  /\ failing = {}
  /\ persistentKeyOf = [t \in PTargets |-> "nextInteger"]

NextPersistentAsync ==
  \/ \E hash \in PKeys : PCall(1, hash, "pending") /\ Len(invoked') <= MaxPromises
  \/ \E v \in 1..MaxPromises, how \in {"resolved", "rejected"} : PSettle(v, how)
  \/ PersistAwaited
  \/ Tick
  \/ PClear

SpecPersistentAsync == InitPersistentAsync /\ [][NextPersistentAsync]_vars

\* memoizeWithPersistentCacheFactory of memoizeWithPersistentCache.ts around
\* one async target, with the backend of the unit tests.
NextCachedArgsAsync ==
  \/ \E hash \in PKeys :
       PCallOfMemoizeWithPersistentCache(1, hash, "pending") /\ Len(invoked') <= MaxPromises
  \/ \E v \in 1..MaxPromises, how \in {"resolved", "rejected"} : PSettle(v, how)
  \/ Tick
  \/ PClear

SpecCachedArgsAsync == InitPersistentAsync /\ [][NextCachedArgsAsync]_vars

\* The test 'remove oldest cache entry when maxCacheSizePerTarget is reached':
\* one synchronous target that does not throw, called with up to three
\* different arguments; the caller clears the memory stores only after more
\* keys than the capacity have been computed.  The factory of the test has
\* no `caches` option, so that clearMemoryCaches leaves the target's Map as
\* it is; the factory with the option, under two of the cacheDurations,
\* makes the other initial states.
InitEviction ==
  /\ InitShared /\ IdleOson /\ IdleSha /\ InitMem /\ IdleTwoLevel /\ IdleOne
  /\ \E given \in BOOLEAN : InitPerOption(given)
  /\ cachesOption => cacheDuration \in {1, POSITIVE_INFINITY}
  /\ targetKind = "sync"
  /\ failing = {}
  /\ persistentKeyOf = [t \in PTargets |-> "nextInteger"]

NextEviction ==
  \/ \E hash \in Keys : PCall(1, hash, "value")
  \/ Tick
  \/ PClear /\ Len(invoked) > maxCacheSizePerTarget

SpecEviction == InitEviction /\ [][NextEviction]_vars

\* The test 'persist cache per function': two synchronous targets that do
\* not throw, wrapped by one factory with different persistentKeys.
\* The cache keys the calls of each of the two targets derive: one in common.
KeysOf(t) == IF t = 1 THEN PKeys ELSE {1}

InitNamespaces ==
  /\ InitShared /\ IdleOson /\ IdleSha /\ InitMem /\ InitPer /\ IdleTwoLevel /\ IdleOne
  /\ targetKind = "sync"
  /\ failing = {}
  /\ persistentKeyOf = [t \in PTargets |-> IF t = 1 THEN "nextInteger" ELSE "nextInteger2"]

NextNamespaces ==
  \/ \E t \in PTargets : \E hash \in KeysOf(t) : PCall(t, hash, "value")
  \/ Tick
  \/ PClear

SpecNamespaces == InitNamespaces /\ [][NextNamespaces]_vars

\* A persistent factory configured with a `caches` list, before any target
\* is wrapped; targets are wrapped one after the other, with different
\* persistentKeys after the first, and called.
InitCaches ==
  /\ InitShared /\ IdleOson /\ IdleSha /\ InitMem /\ IdleTwoLevel /\ IdleOne
  /\ targetKind = "sync"
  /\ persistentKeyOf = <<>>
  /\ failing = {}
  /\ cachesOption = TRUE
  /\ caches = <<>>
  /\ persistentStore = <<>>
  /\ awaiting = <<>>
  /\ pobs = [target |-> 0, key |-> NoKey, result |-> NoValue, path |-> "none", ops |-> <<>>,
             error |-> FALSE]

NextCaches ==
  \/ \E persistentKey \in PersistentKeys :
       /\ \A t \in DOMAIN persistentKeyOf :
            persistentKeyOf[t] = "nextInteger" /\ persistentKey # "nextInteger"
       /\ Wrap(persistentKey)
  \/ \E t \in DOMAIN caches : \E hash \in KeysOf(t) : PCall(t, hash, "value")
  \/ Tick
  \/ PClear

SpecCaches == InitCaches /\ [][NextCaches]_vars

\* The other wrappers while memoize.ts or memoizeOne.ts is under study.
IdleFactory ==
  /\ InitShared /\ IdleOson /\ IdleSha /\ InitMem /\ InitPer /\ IdlePer
  /\ maxCacheSizePerTarget = 1
  /\ targetKind = "sync"

\* memoizeFactory of memoize.ts around a synchronous method or getter.
InitTwoLevelSpec == IdleFactory /\ InitTwoLevel /\ IdleOne

NextTwoLevel ==
  \/ \E this \in Receivers, key \in ArgsKeys, outcome \in {"value", "threw"} :
       MethodCall(this, key, outcome)
  \/ \E this \in Receivers, outcome \in {"value", "threw"} : GetterCall(this, outcome)
  \/ Tick

SpecTwoLevel == InitTwoLevelSpec /\ [][NextTwoLevel]_vars

\* memoizeOne: memoizeOneFactory with getCacheKeyOfHash around a synchronous
\* target.
InitOneSpec == IdleFactory /\ IdleTwoLevel /\ InitOne /\ getCacheKey = "hash"

NextOne ==
  \/ \E self \in Selves, args \in ArgLists, outcome \in {"value", "threw"} :
       OneCall(self, args, outcome)
  \/ Tick

SpecOne == InitOneSpec /\ [][NextOne]_vars

\* memoizeOneWithEmptyHash: memoizeOneFactory with getCacheKeyOfEmptyString
\* around a synchronous target that does not throw.
InitOneWithEmptyHash == IdleFactory /\ IdleTwoLevel /\ InitOne /\ getCacheKey = "emptyString"

NextOneWithEmptyHash ==
  \/ \E self \in Selves, args \in ArgLists : OneCall(self, args, "value")
  \/ Tick

SpecOneWithEmptyHash == InitOneWithEmptyHash /\ [][NextOneWithEmptyHash]_vars

\* memoizeFactory decorating a method of a class that does not throw, with
\* the default getCacheKey: the receiver's fields and the argument change
\* between calls.
InitContext ==
  /\ InitShared /\ IdleOson /\ IdleSha /\ InitPer /\ IdlePer /\ IdleTwoLevel /\ IdleOne
  /\ targetKind = "sync"
  /\ cache = <<>>
  /\ cleared = FALSE
  /\ obs = [key |-> Undefined, result |-> NoValue, path |-> "none"]

NextContext ==
  \/ \E self \in Selves, args \in ArgLists : ContextCall(self, args, "value")
  \/ Tick

SpecContext == InitContext /\ [][NextContext]_vars

\* memoizeFactory decorating a getter of a class, with the default
\* getCacheKey: the getter is read on two instances whose fields change.
InitGetter ==
  /\ InitShared /\ IdleOson /\ IdleSha /\ InitPer /\ IdlePer /\ IdleTwoLevel /\ IdleOne
  /\ targetKind = "sync"
  /\ cache = <<>>
  /\ cleared = FALSE
  /\ obs = [key |-> Undefined, result |-> NoValue, path |-> "none", this |-> 0]

NextGetter ==
  \/ \E this \in Instances, self \in Selves, outcome \in {"value", "threw"} :
       Getter(this, self, outcome)
  \/ Tick

SpecGetter == InitGetter /\ [][NextGetter]_vars

\* memoizeFactory decorating the getter `count`, which increments the field
\* the key is derived from, read on random1 and random2.
NextCounter ==
  \/ \E this \in Instances : ReadCount(this)
  \/ Tick
  \/ Clear

SpecCounter == InitGetter /\ [][NextCounter]_vars

\* memoizeFactory of memoize.ts decorating a method that is called, at one
\* clock reading, on more receivers than maxCachedThisSize allows.
ManyReceivers == {1, 2, 3}

InitReceivers ==
  /\ InitTwoLevelSpec
  /\ contextKind = "method"
  /\ cacheDuration \in {-1, POSITIVE_INFINITY}

\* The argument keys the calls on each receiver derive.
ArgsKeysOn(this) == IF this = 1 THEN ArgsKeys ELSE {1}

NextReceivers ==
  \E this \in ManyReceivers : \E key \in ArgsKeysOn(this), outcome \in {"value", "threw"} :
    MethodCall(this, key, outcome)

SpecReceivers == InitReceivers /\ [][NextReceivers]_vars

\* The memoization wrappers while listify or sha3_512 is under study.
IdleWrappers ==
  /\ InitShared /\ InitMem /\ InitPer /\ IdlePer /\ IdleTwoLevel /\ IdleOne
  /\ cacheDuration = POSITIVE_INFINITY
  /\ maxCacheSizePerTarget = 1
  /\ targetKind = "sync"

\* What an array or an object of the graph holds in a slot.
Elements == {"undefined", "NaN", "7", "k", "function", "r1", "r2"}
\* The arrays (of up to two slots, holes included) and the plain objects (of
\* up to one entry, its key "k") of the graph.
ArraySlots ==
  {<<>>} \cup {<<a>> : a \in Elements \cup {Hole}}
         \cup {<<a, b>> : a \in Elements \cup {Hole}, b \in Elements \cup {Hole}}
ObjectSlots == {<<>>} \cup {<<"k", a>> : a \in Elements}
Nodes ==
  {[kind |-> "array", slots |-> sl] : sl \in ArraySlots}
    \cup {[kind |-> "object", slots |-> sl] : sl \in ObjectSlots}
\* The values listify is called with: every primitive, and the reference r1.
Roots ==
  {"undefined", "NaN", "Infinity", "-Infinity", "7", "k", "true", "null",
   "function", "symbol", "r1"}

\* listify called once on a value; r2 is configured only where r1 refers to it.
InitListify ==
  /\ IdleWrappers /\ IdleSha
  /\ root \in Roots
  /\ graph \in [Refs -> Nodes]
  /\ root \notin Refs => \A r \in Refs : graph[r].slots = <<>> /\ graph[r].kind = "array"
  /\ (\A i \in DOMAIN graph["r1"].slots : graph["r1"].slots[i] # "r2")
       => (graph["r2"].slots = <<>> /\ graph["r2"].kind = "array")
  /\ olist = <<>>
  /\ oindex = <<>>
  /\ frames = <<>>
  /\ returned = [kind |-> "none", num |-> 0]

NextListify ==
  \/ Listify
  \/ Add
  \/ Return

SpecListify == InitListify /\ [][NextListify]_vars

\* listify with a scheduler that lets a call that can take a step take it.
SpecListifyFair == InitListify /\ [][NextListify]_vars /\ WF_vars(NextListify)

\* The messages of hash.test.ts, as UTF-16 code units, with the digests the
\* test expects, as hex digits.
\* ''
MessageEmpty == <<>>
ExpectedEmpty ==
  <<"a", "6", "9", "f", "7", "3", "c", "c", "a", "2", "3", "a", "9", "a",
   "c", "5", "c", "8", "b", "5", "6", "7", "d", "c", "1", "8", "5", "a",
   "7", "5", "6", "e", "9", "7", "c", "9", "8", "2", "1", "6", "4", "f",
   "e", "2", "5", "8", "5", "9", "e", "0", "d", "1", "d", "c", "c", "1",
   "4", "7", "5", "c", "8", "0", "a", "6", "1", "5", "b", "2", "1", "2",
   "3", "a", "f", "1", "f", "5", "f", "9", "4", "c", "1", "1", "e", "3",
   "e", "9", "4", "0", "2", "c", "3", "a", "c", "5", "5", "8", "f", "5",
   "0", "0", "1", "9", "9", "d", "9", "5", "b", "6", "d", "3", "e", "3",
   "0", "1", "7", "5", "8", "5", "8", "6", "2", "8", "1", "d", "c", "d",
   "2", "6">>
\* 'The quick brown fox jumps over the lazy dog'
MessageFox ==
  <<84, 104, 101, 32, 113, 117, 105, 99, 107, 32, 98, 114, 111, 119, 110, 32,
  102, 111, 120, 32, 106, 117, 109, 112, 115, 32, 111, 118, 101, 114, 32,
  116, 104, 101, 32, 108, 97, 122, 121, 32, 100, 111, 103>>
ExpectedFox ==
  <<"0", "1", "d", "e", "d", "d", "5", "d", "e", "4", "e", "f", "1", "4",
   "6", "4", "2", "4", "4", "5", "b", "a", "5", "f", "5", "b", "9", "7",
   "c", "1", "5", "e", "4", "7", "b", "9", "a", "d", "9", "3", "1", "3",
   "2", "6", "e", "4", "b", "0", "7", "2", "7", "c", "d", "9", "4", "c",
   "e", "f", "c", "4", "4", "f", "f", "f", "2", "3", "f", "0", "7", "b",
   "f", "5", "4", "3", "1", "3", "9", "9", "3", "9", "b", "4", "9", "1",
   "2", "8", "c", "a", "f", "4", "3", "6", "d", "c", "1", "b", "d", "e",
   "e", "5", "4", "f", "c", "b", "2", "4", "0", "2", "3", "a", "0", "8",
   "d", "9", "4", "0", "3", "f", "9", "b", "4", "b", "f", "0", "d", "4",
   "5", "0">>
\* 'The quick brown fox jumps over the lazy dog.'
MessageFoxDot ==
  <<84, 104, 101, 32, 113, 117, 105, 99, 107, 32, 98, 114, 111, 119, 110, 32,
  102, 111, 120, 32, 106, 117, 109, 112, 115, 32, 111, 118, 101, 114, 32,
  116, 104, 101, 32, 108, 97, 122, 121, 32, 100, 111, 103, 46>>
ExpectedFoxDot ==
  <<"1", "8", "f", "4", "f", "4", "b", "d", "4", "1", "9", "6", "0", "3",
   "f", "9", "5", "5", "3", "8", "8", "3", "7", "0", "0", "3", "d", "9",
   "d", "2", "5", "4", "c", "2", "6", "c", "2", "3", "7", "6", "5", "5",
   "6", "5", "1", "6", "2", "2", "4", "7", "4", "8", "3", "f", "6", "5",
   "c", "5", "0", "3", "0", "3", "5", "9", "7", "b", "c", "9", "c", "e",
   "4", "d", "2", "8", "9", "f", "2", "1", "d", "1", "c", "2", "f", "1",
   "f", "4", "5", "8", "8", "2", "8", "e", "3", "3", "d", "c", "4", "4",
   "2", "1", "0", "0", "3", "3", "1", "b", "3", "5", "e", "7", "e", "b",
   "0", "3", "1", "b", "5", "d", "3", "8", "b", "a", "6", "4", "6", "0",
   "f", "8">>

\* 'a\u00e9\u20ac' (UTF-8 sequences of one, two and three bytes) and a string of
\* 80 'a' (longer than one block of 72 bytes).
MessageAccents == <<97, 233, 8364>>
MessageLong == [i \in 1..80 |-> 97]
Messages == {MessageEmpty, MessageFox, MessageFoxDot, MessageAccents, MessageLong}

\* sha3_512 called on one message after the other.
InitSha ==
  /\ IdleWrappers /\ IdleOson
  /\ keccak = <<>>
  /\ sha = [pc |-> "idle", message |-> <<>>, index |-> 0, i |-> 0, n |-> 0, then |-> "idle",
           ored |-> <<>>]
  /\ digests = <<>>
  /\ cyrb = [pc |-> "idle", str |-> <<>>, seed |-> 0, i |-> 0, h |-> <<<<0, 0>>, <<0, 0>>>>]
  /\ cyrbKeys = <<>>

NextSha ==
  \/ \E message \in Messages : Sha3_512(message)
  \/ Update
  \/ Finalize
  \/ F
  \/ Hex

SpecSha == InitSha /\ [][NextSha]_vars

\* sha3_512 called on well-formed strings with characters of every UTF-8
\* length: 'a', 'aé€', U+1F600 (the surrogate pair d83d de00) alone
\* and between 'a' and 'b', and U+10FFFF (dbff dfff).
Utf8Messages ==
  {<<97>>, MessageAccents, <<55357, 56832>>, <<97, 55357, 56832, 98>>, <<56319, 57343>>}

NextUtf8 ==
  \/ \E message \in Utf8Messages : Sha3_512(message)
  \/ Update
  \/ Finalize
  \/ F
  \/ Hex

SpecUtf8 == InitSha /\ [][NextUtf8]_vars

\* cyrb64HashWithLength called on '', on the stringified argument lists
\* '[1]' and '[2]', on U+1F600 (two UTF-16 units) and on a string of 36 'a',
\* with the default seed and with seed 1.
CyrbStrings ==
  {<<>>, <<91, 49, 93>>, <<91, 50, 93>>, <<55357, 56832>>, [i \in 1..36 |-> 97]}
Seeds == {0, 1}

NextCyrb ==
  \/ \E str \in CyrbStrings, seed \in Seeds : Cyrb64HashWithLength(str, seed)
  \/ Cyrb64
  \/ Cyrb64Return

SpecCyrb == InitSha /\ [][NextCyrb]_vars

\* ================================================================ claims
\* Vocabulary of the claims, stated on the store itself.
EntriesOf(m, k) == {i \in DOMAIN m : m[i].key = k}
Expired(e) == now - e.at > cacheDuration
Distinct(n) == \A i, j \in 1..n : i # j => invoked[i].key # invoked[j].key
Finite(d) == d # POSITIVE_INFINITY

\* C1: a call whose key has an entry in the store that has not expired returns
\* that entry's value, computed by an earlier call with the same key, and
\* does not invoke the target.
C1_HitReturnsStored ==
  [][\A k \in Keys, o \in {"value", "threw"} :
       (Call(k, o) /\ \E i \in EntriesOf(cache, k) : ~Expired(cache[i]))
       => \E i \in EntriesOf(cache, k) :
            /\ obs'.result = cache[i].value
            /\ obs'.path = "hit"
            /\ invoked' = invoked
            /\ invoked[cache[i].value].key = k]_vars

\* A hit on an entry computed before the latest computation.
C1_Witness ==
  /\ obs.path = "hit"
  /\ obs.result >= 1
  /\ obs.result < Len(invoked)
  /\ invoked[obs.result].key = obs.key

\* C2: with unbounded cacheDuration and capacity N, after N+1 computations
\* with pairwise distinct keys on the initially empty store the store holds
\* exactly the keys of computations 2..N+1; a call with one of them then is a
\* hit and a call with the first key invokes the target.
C2_AfterOverflow ==
  /\ cacheDuration = POSITIVE_INFINITY
  /\ ~cleared
  /\ Len(invoked) = maxCacheSizePerTarget + 1
  /\ Distinct(maxCacheSizePerTarget + 1)

C2_CapacityEviction ==
  /\ [](C2_AfterOverflow =>
          /\ Len(cache) = maxCacheSizePerTarget
          /\ \A i \in 1..maxCacheSizePerTarget :
               /\ cache[i].key = invoked[i + 1].key
               /\ cache[i].value = i + 1)
  /\ [][\A k \in Keys, o \in {"value", "threw"} :
          (C2_AfterOverflow /\ Call(k, o))
          => /\ \A i \in 2..(maxCacheSizePerTarget + 1) :
                  k = invoked[i].key
                  => obs'.path = "hit" /\ obs'.result = i /\ invoked' = invoked
             /\ k = invoked[1].key => obs'.path \in {"miss", "threw"}
             /\ (k = invoked[1].key /\ o = "value")
                  => Len(invoked') = maxCacheSizePerTarget + 2]_vars

\* The first key was recomputed after capacity + 1 distinct keys.
C2_Witness ==
  /\ cacheDuration = POSITIVE_INFINITY
  /\ ~cleared
  /\ Len(invoked) = maxCacheSizePerTarget + 2
  /\ Distinct(maxCacheSizePerTarget + 1)
  /\ invoked[maxCacheSizePerTarget + 2].key = invoked[1].key
  /\ obs.path = "miss"
  /\ obs.key = invoked[1].key

\* C3: with a finite cacheDuration d >= 0, a call whose key has an entry
\* stored at t returns the stored value without invoking the target exactly
\* when now - t <= d; otherwise it invokes the target and stores the new
\* value with the timestamp now.
C3_TtlBoundary ==
  [][\A k \in Keys, o \in {"value", "threw"} :
       (Call(k, o) /\ Finite(cacheDuration) /\ cacheDuration >= 0)
       => \A i \in EntriesOf(cache, k) :
            /\ (obs'.result = cache[i].value /\ invoked' = invoked)
                 <=> (now - cache[i].at <= cacheDuration)
            /\ (now - cache[i].at > cacheDuration /\ o = "value")
                 => /\ Len(invoked') = Len(invoked) + 1
                    /\ obs'.result = Len(invoked')
                    /\ \E j \in EntriesOf(cache', k) :
                         cache'[j].value = Len(invoked') /\ cache'[j].at = now]_vars

\* An entry stored at the boundary age was hit, and one past it recomputed.
C3_Witness ==
  /\ cacheDuration = 1
  /\ obs.path = "stale"
  /\ Len(invoked) >= 2
  /\ \E i \in EntriesOf(cache, obs.key) : cache[i].at = now /\ cache[i].value = obs.result

\* C4, memoizeFactory: with cacheDuration <= 0 no call returns a stored
\* value, whatever the clock readings of the calls.
C4_Original == cacheDuration <= 0 => obs.path # "hit"

\* C4, memoizeOne with a negative cacheDuration: every call invokes the
\* target, so that no call returns lastCache without an invocation.
C4_NegativeDurationOne == cacheDuration < 0 => oobs.path # "hit"

\* C5: a hit leaves the store and its order as they are; the store is in
\* insertion order, and a call removes a key other than its own only if
\* that key's entry is the earliest inserted.
C5_InsertionOrderEviction ==
  /\ [](\A i, j \in DOMAIN cache : i < j => cache[i].value < cache[j].value)
  /\ [][\A k \in Keys, o \in {"value", "threw"} :
          Call(k, o)
          => /\ obs'.path = "hit" => cache' = cache
             /\ \A i \in DOMAIN cache :
                  (cache[i].key # k /\ EntriesOf(cache', cache[i].key) = {})
                  => \A j \in DOMAIN cache : cache[i].value <= cache[j].value
             /\ \A i, j \in DOMAIN cache :
                  (i < j /\ cache[i].key # k /\ cache[j].key # k
                     /\ EntriesOf(cache', cache[i].key) # {}
                     /\ EntriesOf(cache', cache[j].key) # {})
                  => \A a \in EntriesOf(cache', cache[i].key),
                        b \in EntriesOf(cache', cache[j].key) : a < b]_vars

\* The earliest-inserted key was evicted although it was the latest one read.
C5_Witness ==
  /\ maxCacheSizePerTarget = 2
  /\ Len(invoked) = 3
  /\ Len(cache) = 2
  /\ cache[1].value = 2
  /\ cache[2].value = 3
  /\ obs.path = "miss"
  /\ ~cleared
  /\ cacheDuration = POSITIVE_INFINITY

\* C6: no failed computation is in the store: not the key of a call that
\* threw, and no promise that has rejected.
C6_FailureNeverCached ==
  /\ obs.path = "threw" => EntriesOf(cache, obs.key) = {}
  /\ \A i \in DOMAIN cache : invoked[cache[i].value].kind # "rejected"

\* C7: the result of an async target is not in the store while its promise
\* is pending: a call whose key's promise is still pending misses and
\* invokes the target again.
C7_Original ==
  [][\A k \in Keys :
       (Call(k, "pending")
          /\ \E i \in EntriesOf(cache, k) : invoked[cache[i].value].kind = "pending")
       => Len(invoked') = Len(invoked) + 1]_vars

\* Vocabulary of the persistent claims.
NameOf(t, k) == <<persistentKeyOf[t], k>>
Persisted(t, k) == NameOf(t, k) \in DOMAIN persistentStore
OpsNamed(ops, name) == {i \in DOMAIN ops : ops[i].op = name}

\* C8: when the memory store has no entry for the key and the backend has
\* one that has not expired, the call returns the backend's value without
\* invoking the target and without persistCache, and copies the entry into
\* the memory store; a call whose key has an unexpired memory entry is a
\* memory hit that calls nothing of the backend.
C8_BackendHitCopied ==
  [][\A k \in PKeys, o \in {"value", "threw"} :
       PCall(1, k, o)
       => /\ (/\ EntriesOf(caches[1], k) = {}
              /\ Persisted(1, k)
              /\ now - persistentStore[NameOf(1, k)].at <= cacheDuration)
             => /\ pobs'.result = persistentStore[NameOf(1, k)].value
                /\ pobs'.path = "backend"
                /\ invoked' = invoked
                /\ OpsNamed(pobs'.ops, "persistCache") = {}
                /\ persistentStore' = persistentStore
                /\ \E j \in EntriesOf(caches'[1], k) :
                     /\ caches'[1][j].value = persistentStore[NameOf(1, k)].value
                     /\ caches'[1][j].at = persistentStore[NameOf(1, k)].at
          /\ \A i \in EntriesOf(caches[1], k) :
               ~Expired(caches[1][i])
               => /\ pobs'.path = "hit"
                  /\ pobs'.ops = <<>>
                  /\ pobs'.result = caches[1][i].value
                  /\ invoked' = invoked
                  /\ persistentStore' = persistentStore]_vars

\* A value computed before the memory store was cleared was served from the
\* backend at a later time and is in the memory store again.
C8_Witness ==
  /\ pobs.path = "backend"
  /\ Len(invoked) = 1
  /\ pobs.result = 1
  /\ \E j \in EntriesOf(caches[1], pobs.key) :
       caches[1][j].value = 1 /\ caches[1][j].at < now

\* C9: the memory store of a target never holds more than
\* maxCacheSizePerTarget entries.
C9_MemoryBounded ==
  \A t \in PTargets : Len(caches[t]) <= maxCacheSizePerTarget

\* C10: when the memory store has no entry for the key and the backend's
\* entry has expired, the call reads it, calls removeCache for the key and
\* invokes the target; when the target returns, the fresh value is returned
\* and persisted, and the backend holds for the key exactly the fresh value
\* with the timestamp of the call.
C10_StaleBackendReplaced ==
  [][\A k \in PKeys, o \in {"value", "threw"} :
       (/\ PCall(1, k, o)
        /\ EntriesOf(caches[1], k) = {}
        /\ Persisted(1, k)
        /\ now - persistentStore[NameOf(1, k)].at > cacheDuration)
       => /\ \E i, j \in DOMAIN pobs'.ops :
               /\ i < j
               /\ pobs'.ops[i] = [op |-> "tryReadingCache", key |-> k]
               /\ pobs'.ops[j] = [op |-> "removeCache", key |-> k]
          /\ pobs'.path \in {"miss", "threw"}
          /\ o = "value"
               => /\ Len(invoked') = Len(invoked) + 1
                  /\ pobs'.result = Len(invoked')
                  /\ pobs'.result # persistentStore[NameOf(1, k)].value
                  /\ pobs'.ops[Len(pobs'.ops)] = [op |-> "persistCache", key |-> k]
                  /\ Persisted(1, k)'
                  /\ persistentStore'[NameOf(1, k)] = [value |-> pobs'.result, at |-> now]
                  /\ Cardinality({n \in DOMAIN persistentStore' : n[2] = k}) = 1]_vars

\* An expired backend entry was removed and replaced by a fresh one.
C10_Witness ==
  /\ pobs.path = "miss"
  /\ Len(invoked) = 2
  /\ invoked[1].key = invoked[2].key
  /\ \E i \in DOMAIN pobs.ops : pobs.ops[i] = [op |-> "removeCache", key |-> pobs.key]
  /\ Finite(cacheDuration) /\ cacheDuration >= 0
  /\ Persisted(1, pobs.key)
  /\ persistentStore[NameOf(1, pobs.key)] = [value |-> 2, at |-> now]

\* What a call does with a backend that stores nothing: a live memory entry
\* is returned, anything else invokes the target.
NullBackendStep(k, o) ==
  IF \E i \in EntriesOf(caches[1], k) : now - caches[1][i].at <= cacheDuration
    THEN /\ \E i \in EntriesOf(caches[1], k) : pobs'.result = caches[1][i].value
         /\ invoked' = invoked
    ELSE IF o = "threw"
    THEN pobs'.path = "threw" /\ invoked' = invoked
    ELSE pobs'.result = Len(invoked) + 1 /\ Len(invoked') = Len(invoked) + 1

\* C11 as stated: whichever callbacks of the backend fail, every call returns
\* what it would return with a backend that stores nothing, and no backend
\* operation is called twice within a call.
C11_Original ==
  [][\A k \in PKeys, o \in {"value", "threw"} :
       (PCall(1, k, o) /\ failing # {})
       => /\ NullBackendStep(k, o)
          /\ \A i, j \in DOMAIN pobs'.ops : pobs'.ops[i] = pobs'.ops[j] => i = j]_vars

\* C11 amended: no backend error reaches the caller; when persistCache or
\* tryReadingCache fails, every call returns what it would return with a
\* backend that stores nothing; a call makes at most one tryReadingCache and
\* one persistCache call, and calls removeCache twice with the same key only
\* for its own key when removeCache fails.
C11_FailuresIsolated ==
  /\ [](~pobs.error)
  /\ [][\A k \in PKeys, o \in {"value", "threw"} :
          PCall(1, k, o)
          => /\ ("persistCache" \in failing \/ "tryReadingCache" \in failing)
                  => NullBackendStep(k, o) /\ pobs'.path # "backend"
             /\ Cardinality(OpsNamed(pobs'.ops, "tryReadingCache")) <= 1
             /\ Cardinality(OpsNamed(pobs'.ops, "persistCache")) <= 1
             /\ \A i, j \in DOMAIN pobs'.ops :
                  (pobs'.ops[i] = pobs'.ops[j] /\ i # j)
                  => /\ pobs'.ops[i] = [op |-> "removeCache", key |-> k]
                     /\ "removeCache" \in failing]_vars

\* With all three callbacks failing, a key was computed again after the
\* memory store was cleared, the failed persistCache being the last step.
C11_Witness ==
  /\ failing = BackendOps
  /\ cacheDuration = POSITIVE_INFINITY
  /\ Len(invoked) = 2
  /\ invoked[1].key = invoked[2].key
  /\ pobs.path = "miss"
  /\ pobs.result = 2
  /\ ~pobs.error
  /\ pobs.ops[Len(pobs.ops)] = [op |-> "persistCache", key |-> pobs.key]
  /\ persistentStore = <<>>

\* C12: a call whose target returns a promise calls persistCache neither
\* during the call, nor while the promise is pending, nor in the step that
\* settles it; the continuation queued by the resolution calls persistCache
\* with the key of the call, the resolved value (not the promise) and the
\* timestamp the call took at its start; a rejection queues nothing and the
\* backend never gets an entry for that call.
C12_PersistAfterResolve ==
  /\ [](/\ \A n \in DOMAIN persistentStore :
             /\ persistentStore[n].value < 0
             /\ invoked[-persistentStore[n].value].kind = "resolved"
             /\ n = NameOf(1, invoked[-persistentStore[n].value].key)
        /\ \A j \in DOMAIN microtasks : invoked[microtasks[j].result].kind = "resolved"
        /\ \A j \in DOMAIN awaiting : invoked[awaiting[j].result].kind = "pending")
  /\ [][\A k \in PKeys :
          (PCall(1, k, "pending") /\ pobs'.path = "miss")
          => /\ OpsNamed(pobs'.ops, "persistCache") = {}
             /\ \A n \in DOMAIN persistentStore' :
                  n \in DOMAIN persistentStore /\ persistentStore'[n] = persistentStore[n]
             /\ \E j \in DOMAIN awaiting' :
                  /\ awaiting'[j].result = pobs'.result
                  /\ awaiting'[j].now = now
                  /\ awaiting'[j].hash = k]_vars
  /\ [][\A v \in 1..MaxPromises :
          /\ PSettle(v, "resolved")
               => /\ persistentStore' = persistentStore
                  /\ \E j \in DOMAIN awaiting :
                       /\ awaiting[j].result = v
                       /\ microtasks' = Append(microtasks, awaiting[j])
          /\ PSettle(v, "rejected")
               => /\ persistentStore' = persistentStore
                  /\ microtasks' = microtasks
                  /\ \A j \in DOMAIN awaiting' : awaiting'[j].result # v]_vars
  /\ [][PersistAwaited
          => /\ NameOf(1, invoked[microtasks[1].result].key) \in DOMAIN persistentStore'
             /\ persistentStore'[NameOf(1, invoked[microtasks[1].result].key)] =
                  [value |-> -microtasks[1].result, at |-> microtasks[1].now]
             /\ \A n \in DOMAIN persistentStore \ {NameOf(1, invoked[microtasks[1].result].key)} :
                  n \in DOMAIN persistentStore' /\ persistentStore'[n] = persistentStore[n]]_vars

\* A promise resolved after time had passed since its call: the backend has
\* its resolved value under the timestamp of the call, while another
\* promise has rejected and left nothing.
C12_Witness ==
  /\ Len(invoked) = 2
  /\ invoked[1].kind = "rejected"
  /\ invoked[2].kind = "resolved"
  /\ invoked[1].key # invoked[2].key
  /\ DOMAIN persistentStore = {NameOf(1, invoked[2].key)}
  /\ persistentStore[NameOf(1, invoked[2].key)].value = -2
  /\ persistentStore[NameOf(1, invoked[2].key)].at < now

\* The state of C13: capacity + 1 computations with pairwise distinct keys.
C13_AfterOverflow ==
  /\ Len(invoked) = maxCacheSizePerTarget + 1
  /\ Distinct(maxCacheSizePerTarget + 1)

\* C13: a call that computes a new key while the memory store holds
\* maxCacheSizePerTarget other keys removes the earliest-inserted one from
\* the memory store and from the backend; after capacity + 1 distinct keys
\* the first key is in neither tier, the backend holds exactly the keys of
\* the latest capacity computations, and a call with the first key invokes
\* the target, whether or not the memory stores have been cleared.
C13_EvictionInBothTiers ==
  /\ [][\A k \in Keys :
          (/\ PCall(1, k, "value")
           /\ pobs'.path = "miss"
           /\ EntriesOf(caches[1], k) = {}
           /\ Len(caches[1]) >= maxCacheSizePerTarget)
          => /\ EntriesOf(caches'[1], caches[1][1].key) = {}
             /\ NameOf(1, caches[1][1].key) \notin DOMAIN persistentStore'
             /\ [op |-> "removeCache", key |-> caches[1][1].key]
                  \in {pobs'.ops[i] : i \in DOMAIN pobs'.ops}]_vars
  /\ [](C13_AfterOverflow
          => /\ EntriesOf(caches[1], invoked[1].key) = {}
             /\ NameOf(1, invoked[1].key) \notin DOMAIN persistentStore
             /\ DOMAIN persistentStore =
                  {NameOf(1, invoked[i].key) : i \in 2..(maxCacheSizePerTarget + 1)}
             /\ \A i \in 2..(maxCacheSizePerTarget + 1) :
                  persistentStore[NameOf(1, invoked[i].key)].value = i)
  /\ [][\A k \in Keys :
          (C13_AfterOverflow /\ PCall(1, k, "value") /\ k = invoked[1].key)
          => /\ pobs'.path = "miss"
             /\ Len(invoked') = maxCacheSizePerTarget + 2
             /\ pobs'.result = maxCacheSizePerTarget + 2]_vars

\* With capacity 2, the first of three keys was computed again after the
\* memory stores had been cleared: only its new value is in memory.
C13_Witness ==
  /\ maxCacheSizePerTarget = 2
  /\ cacheDuration = POSITIVE_INFINITY
  /\ Len(invoked) = 4
  /\ Distinct(3)
  /\ invoked[4].key = invoked[1].key
  /\ pobs.path = "miss"
  /\ Len(caches[1]) = 1
  /\ caches[1][1].value = 4
  /\ Cardinality(DOMAIN persistentStore) = 3

\* C14: with two targets wrapped with different persistentKeys, every value
\* a call returns was computed by the called target; every backend entry is
\* under the persistentKey of the target that computed its value; a miss of
\* a target writes the entry of its key under its own persistentKey and
\* leaves the entries under the other persistentKey as they are.
C14_NamespacesIsolated ==
  /\ [](pobs.path \in {"hit", "backend", "miss"}
          => invoked[pobs.result].target = pobs.target)
  /\ [](\A n \in DOMAIN persistentStore :
          n[1] = persistentKeyOf[invoked[persistentStore[n].value].target])
  /\ [][\A t \in PTargets, k \in PKeys :
          (PCall(t, k, "value") /\ pobs'.path = "miss")
          => /\ <<persistentKeyOf[t], k>> \in DOMAIN persistentStore'
             /\ persistentStore'[<<persistentKeyOf[t], k>>] =
                  [value |-> Len(invoked'), at |-> now]
             /\ \A n \in DOMAIN persistentStore :
                  n[1] # persistentKeyOf[t]
                  => n \in DOMAIN persistentStore' /\ persistentStore'[n] = persistentStore[n]
             /\ \A n \in DOMAIN persistentStore' :
                  n[1] # persistentKeyOf[t] => n \in DOMAIN persistentStore]_vars

\* Both targets computed the same key; after the memory stores were cleared
\* the second target was served its own value from the backend, not the
\* first target's.
C14_Witness ==
  /\ pobs.path = "backend"
  /\ pobs.target = 2
  /\ Len(invoked) = 2
  /\ invoked[1].target = 1
  /\ invoked[2].target = 2
  /\ invoked[1].key = pobs.key
  /\ invoked[2].key = pobs.key
  /\ pobs.result = 2
  /\ <<persistentKeyOf[1], pobs.key>> \in DOMAIN persistentStore
  /\ persistentStore[<<persistentKeyOf[1], pobs.key>>].value = 1

\* C15: the caches list holds one store per wrapped target; wrapping a
\* target appends one empty store and nothing else changes the length of the
\* list; clearing empties every store of the list, and a call made while
\* every store of the list is empty is not a memory hit, whatever its
\* target and key: it invokes the target or is served by the backend.
C15_StoresRegistered ==
  /\ [](Len(caches) = Len(persistentKeyOf))
  /\ [][(Len(persistentKeyOf') = Len(persistentKeyOf) + 1)
         => (/\ Len(caches') = Len(caches) + 1
             /\ caches'[Len(caches')] = <<>>
             /\ \A t \in DOMAIN caches : caches'[t] = caches[t])]_vars
  /\ [][(Len(persistentKeyOf') = Len(persistentKeyOf))
         => (Len(caches') = Len(caches))]_vars
  /\ [][PClear => \A t \in DOMAIN caches' : caches'[t] = <<>>]_vars
  /\ [][\A t \in DOMAIN caches : \A k \in PKeys :
          (PCall(t, k, "value") /\ \A u \in DOMAIN caches : caches[u] = <<>>)
          => \/ pobs'.path = "miss" /\ Len(invoked') = Len(invoked) + 1
             \/ pobs'.path = "backend" /\ invoked' = invoked]_vars

\* Two targets are wrapped; the first computed a value that cannot expire,
\* the stores were cleared, and the second was then served by the backend.
C15_Witness ==
  /\ Len(caches) = 2
  /\ cacheDuration = POSITIVE_INFINITY
  /\ Len(invoked) = 2
  /\ invoked[1].target = 1
  /\ invoked[2].target = 2
  /\ caches[1] = <<>>
  /\ pobs.path = "backend"
  /\ pobs.target = 2

\* The keys of a Map and the per-receiver Map of `this` (empty if none).
KeysIn(m) == {m[i].key : i \in DOMAIN m}
ByArgsOf(m, this) == IF MapHas(m, this) THEN MapGet(m, this).value ELSE <<>>

\* C16: a call that recomputes a key (for a getter: a receiver) whose stale
\* entry is in the store removes no other key of the receiver's store and
\* no other receiver, and leaves no fewer entries than there were.
C16_RefreshKeepsOthers ==
  /\ [][\A this \in Receivers, key \in ArgsKeys :
          (/\ MethodCall(this, key, "value")
           /\ key \in KeysIn(ByArgsOf(cacheByThis, this))
           /\ tobs'.path = "stale")
          => /\ KeysIn(ByArgsOf(cacheByThis, this)) \subseteq KeysIn(ByArgsOf(cacheByThis', this))
             /\ KeysIn(cacheByThis) \subseteq KeysIn(cacheByThis')
             /\ Len(ByArgsOf(cacheByThis', this)) >= Len(ByArgsOf(cacheByThis, this))]_vars
  /\ [][\A this \in Receivers :
          (/\ GetterCall(this, "value")
           /\ this \in KeysIn(cacheByThis)
           /\ tobs'.path = "stale")
          => /\ KeysIn(cacheByThis) \subseteq KeysIn(cacheByThis')
             /\ Len(cacheByThis') >= Len(cacheByThis)]_vars

\* C17: a lookup that finds a stale entry does not delete it; when the
\* recomputation of a stale entry throws, the stale entry is still in the
\* store after the call.
C17_Original ==
  [][\A k \in Keys :
       (Call(k, "threw") /\ \E i \in EntriesOf(cache, k) : Expired(cache[i]))
       => EntriesOf(cache', k) # {}]_vars

\* C18: with the constant key and unbounded cacheDuration, the first call
\* invokes the target and every later call, whatever its receiver and
\* arguments, returns the first call's result without invoking the target.
C18_ComputedOnce ==
  /\ [](cacheDuration = POSITIVE_INFINITY
          => /\ Len(invoked) <= 1
             /\ oobs.path # "none" => oobs.result = 1 /\ Len(invoked) = 1)
  /\ [][\A self \in Selves, args \in ArgLists :
          (OneCall(self, args, "value") /\ cacheDuration = POSITIVE_INFINITY)
          => IF oobs.path = "none"
               THEN oobs'.path = "miss" /\ oobs'.result = 1 /\ Len(invoked') = 1
               ELSE oobs'.path = "hit" /\ oobs'.result = 1 /\ invoked' = invoked]_vars

\* After time had passed, a call with another receiver state and other
\* arguments than the previous call was served the first result.
C18_Witness ==
  /\ cacheDuration = POSITIVE_INFINITY
  /\ now = MaxTime
  /\ Len(invoked) = 1
  /\ oobs.path = "hit"
  /\ oobs.result = 1
  /\ oobs.self = 1
  /\ oobs.args = 2

\* C19: a call whose receiver or arguments differ from those of the previous
\* call invokes the target, also when an earlier call had computed a value
\* for them; a call with the receiver and arguments of the previous call,
\* which returned a value, made while now - lastCachedAt <= cacheDuration
\* returns that value without invoking the target.
C19_OnlyLatestKept ==
  [][\A self \in Selves, args \in ArgLists, o \in {"value", "threw"} :
       OneCall(self, args, o)
       => /\ (oobs.path # "none" /\ <<self, args>> # <<oobs.self, oobs.args>>)
               => /\ oobs'.path \in {"miss", "threw"}
                  /\ o = "value" => Len(invoked') = Len(invoked) + 1
                                     /\ oobs'.result = Len(invoked')
          /\ (/\ oobs.path \in {"miss", "hit"}
              /\ <<self, args>> = <<oobs.self, oobs.args>>
              /\ now - lastCachedAt <= cacheDuration)
               => /\ oobs'.path = "hit"
                  /\ oobs'.result = oobs.result
                  /\ invoked' = invoked]_vars

\* The calls k1, k2, k1 in one millisecond with unbounded cacheDuration: the
\* third call computed k1 again.
C19_Witness ==
  /\ cacheDuration = POSITIVE_INFINITY
  /\ Len(invoked) = 3
  /\ invoked[1].key = invoked[3].key
  /\ invoked[1].key # invoked[2].key
  /\ oobs.path = "miss"
  /\ oobs.result = 3

\* C20: a call that follows a call with the same receiver and arguments
\* whose target threw invokes the target and returns no stored value.
C20_ThrowNotCached ==
  [][\A self \in Selves, args \in ArgLists, o \in {"value", "threw"} :
       (/\ OneCall(self, args, o)
        /\ oobs.path = "threw"
        /\ <<self, args>> = <<oobs.self, oobs.args>>)
       => oobs'.path \in {"miss", "threw"}]_vars

\* ------------------------------------------------------------------ C21
\* The latest call of the wrapper returned a value to its caller.
Returned == obs.path \in {"hit", "miss", "stale"}

\* C21 as stated: whenever the receiver's fields or the argument differ from
\* those of the previous call, the call invokes the target, whatever calls
\* came before.
C21_Original ==
  [][\A self \in Selves, args \in ArgLists :
       (Returned /\ obs.key # <<self, args>> /\ ContextCall(self, args, "value"))
         => invoked' # invoked]_vars

\* C21: a call whose receiver fields or argument differ from those of the
\* previous call derives a different key and never returns the previous
\* call's value; every value a call returns from the store was computed for
\* the same fields and argument; the call invokes the target exactly when the
\* store holds no live entry for its fields and argument, so that a
\* combination that occurred before and is still stored live is returned
\* from the store.
C21_ChangedInputNewKey ==
  [][\A self \in Selves, args \in ArgLists :
       ContextCall(self, args, "value") =>
         /\ (Returned /\ obs.key # <<self, args>>) =>
              (obs'.key # obs.key /\ obs'.result # obs.result)
         /\ obs'.path = "hit" => invoked[obs'.result].key = <<self, args>>
         /\ obs'.path = "hit" <=>
              \E i \in DOMAIN cache : /\ cache[i].key = <<self, args>>
                                      /\ now - cache[i].at <= cacheDuration]_vars

\* A receiver field was changed, the target was invoked for the new
\* combination, and a later call with an earlier combination was answered
\* from the store.
C21_Witness ==
  /\ obs.path = "hit"
  /\ obs.result < Len(invoked)
  /\ invoked[Len(invoked)].key[1] # obs.key[1]
  /\ invoked[Len(invoked)].key[2] = obs.key[2]

\* ------------------------------------------------------------------ C22
\* C22 as stated: a memoized getter read on one receiver instance never
\* returns a value that was computed by a read on another instance, whether
\* or not the fields of the two instances are equal.
C22_GetterPerInstance ==
  obs.path = "hit" => invoked[obs.result].this = obs.this

\* ------------------------------------------------------------------ C23
\* C23: the receiver map never holds more than maxCachedThisSize receivers;
\* a call on a receiver that is not in the map while the map is full removes
\* the earliest-inserted receiver with all of its entries, keeps the other
\* receivers with their entries and adds the new receiver last; a call on a
\* receiver that is not in the map invokes the target, whatever the key.
\* (tobs'.this is the receiver of the call a step makes.)
C23_ReceiversBounded ==
  /\ [](Len(cacheByThis) <= maxCachedThisSize)
  /\ [][(tobs'.this \notin KeysIn(cacheByThis) /\ Len(cacheByThis) = maxCachedThisSize)
        => /\ cacheByThis[1].key \notin KeysIn(cacheByThis')
           /\ Len(cacheByThis') = maxCachedThisSize
           /\ \A i \in 2..Len(cacheByThis) : cacheByThis'[i - 1] = cacheByThis[i]
           /\ cacheByThis'[Len(cacheByThis')].key = tobs'.this]_vars
  /\ [][tobs'.this \notin KeysIn(cacheByThis)
        => tobs'.path \in {"miss", "threw"}]_vars
  /\ [][tobs'.path = "miss" => (invoked' # invoked /\ tobs'.result = Len(invoked'))]_vars

\* A receiver that held an entry was evicted by a call on another receiver
\* and then called again with the same key: the target was invoked anew.
C23_Witness ==
  /\ Len(invoked) >= 3
  /\ tobs.path = "miss"
  /\ tobs.result = Len(invoked)
  /\ \E v \in 1..(Len(invoked) - 2) :
       /\ invoked[v].this = tobs.this
       /\ invoked[v].key = tobs.key
       /\ invoked[v + 1].this # tobs.this
  /\ Len(cacheByThis) = maxCachedThisSize
  /\ maxCachedThisSize = 2
  /\ cacheDuration = POSITIVE_INFINITY

\* ------------------------------------------------------------------ C24
\* C24: the store of a target never holds more than maxCacheSizePerTarget
\* entries, whatever calls, clock advances and clears happen; a call that
\* computes a key which is not in the store while the store is full removes
\* exactly the oldest entry and puts the new one last; every other call that
\* computes a value removes no entry of another key.
C24_StoreBounded ==
  /\ [](Len(cache) <= maxCacheSizePerTarget)
  /\ [][(invoked' # invoked /\ obs'.path = "miss" /\ Len(cache) = maxCacheSizePerTarget)
        => /\ Len(cache') = maxCacheSizePerTarget
           /\ \A i \in 2..Len(cache) : cache'[i - 1] = cache[i]
           /\ cache'[Len(cache')] = [key |-> obs'.key, value |-> obs'.result, at |-> now]]_vars
  /\ [][(invoked' # invoked /\ (obs'.path = "stale" \/ Len(cache) < maxCacheSizePerTarget))
        => \A i \in DOMAIN cache :
             cache[i].key # obs'.key => \E j \in DOMAIN cache' : cache'[j] = cache[i]]_vars

\* A full store of two entries received a third key after a clock advance:
\* the oldest entry made room and the store is full again.
C24_Witness ==
  /\ maxCacheSizePerTarget = 2
  /\ Len(cache) = 2
  /\ obs.path = "miss"
  /\ Len(invoked) >= 3
  /\ obs.result = Len(invoked)
  /\ cache[1].value = Len(invoked) - 1
  /\ cache[1].at < cache[2].at
  /\ ~cleared

\* ------------------------------------------------------------ C25 .. C28
\* listify has returned.
Finished == returned.kind # "none"

\* The values with a magic number, and the magic number the claims give each.
MagicValues == {"undefined", "NaN", "Infinity", "-Infinity"}
SentinelOf(v) ==
  CASE v = "undefined" -> -1
    [] v = "NaN" -> -3
    [] v = "Infinity" -> -4
    [] v = "-Infinity" -> -5

\* The objects and arrays that are reachable from the root, and all values
\* that are: the root, the reachable containers and what their slots hold.
SlotValues(r) == {graph[r].slots[i] : i \in DOMAIN graph[r].slots}
RECURSIVE Closure(_, _)
Closure(S, n) ==
  IF n = 0 THEN S ELSE Closure(S \cup (UNION {SlotValues(r) : r \in S} \cap Refs), n - 1)
ReachableRefs == Closure({root} \cap Refs, Cardinality(Refs))
ReachableValues == {root} \cup UNION {SlotValues(r) : r \in ReachableRefs}

\* The position `index` gives a value, and the record of a container.
PositionOf(v) == MapGet(oindex, v).value
RecordOf(r) == olist[PositionOf(r) + 1]

\* C25: listify returns a bare magic number, and builds no list, exactly when
\* the root is undefined (-1), NaN (-3), Infinity (-4) or -Infinity (-5); for
\* every other root with an encoding it returns a list whose position 0 holds
\* the root's entry; undefined and NaN in a slot of a container are written
\* as their magic numbers into the container's record and no position of the
\* list is spent on them.
C25_RootSentinels ==
  Finished =>
    /\ returned.kind = "magic" <=> root \in MagicValues
    /\ returned.kind = "magic" => (returned.num = SentinelOf(root) /\ olist = <<>>)
    /\ (root \notin MagicValues /\ root \notin NonEncodable) =>
         /\ returned.kind = "list"
         /\ Len(olist) >= 1
         /\ IF root \in Refs
              THEN /\ olist[1].type = graph[root].kind
                   /\ Len(olist[1].items) = Len(graph[root].slots)
                   /\ PositionOf(root) = 0
              ELSE olist[1] = [type |-> "primitive", prim |-> root, label |-> "", items |-> <<>>]
    /\ \A r \in ReachableRefs : \A i \in DOMAIN graph[r].slots :
         graph[r].slots[i] \in MagicValues
           => RecordOf(r).items[i] = SentinelOf(graph[r].slots[i])
    /\ \A p \in DOMAIN olist : olist[p].type = "primitive" => olist[p].prim \notin MagicValues

\* listify returned a list for an array that holds undefined and NaN next
\* to each other: both are magic numbers in the one record of the list.
C25_Witness ==
  /\ Finished
  /\ root = "r1"
  /\ graph["r1"] = [kind |-> "array", slots |-> <<"undefined", "NaN">>]
  /\ returned.kind = "list"
  /\ olist = <<[type |-> "array", prim |-> "", label |-> "", items |-> <<-1, -3>>]>>

\* C26 as stated: in the record of every array a hole is the array-hole
\* magic number -2 and an element that is undefined is -1.
C26_HolesEncoded ==
  (Finished /\ returned.kind = "list") =>
    \A r \in ReachableRefs : \A i \in DOMAIN graph[r].slots :
      graph[r].kind = "array" =>
        /\ graph[r].slots[i] = Hole => RecordOf(r).items[i] = -2
        /\ graph[r].slots[i] = "undefined" => RecordOf(r).items[i] = -1

\* C27: listify returns for every graph, cyclic ones included, and the list
\* it returns holds one record for each object and array that is reachable
\* from the root, at distinct positions; every slot that refers to an object
\* or array holds the position of that one record, a reference back to an
\* enclosing container included.
C27_EachIdentityOnce ==
  /\ <>Finished
  /\ [](Finished /\ root \in Refs =>
          /\ KeysIn(oindex) \cap Refs = ReachableRefs
          /\ \A a, b \in ReachableRefs : a # b => PositionOf(a) # PositionOf(b)
          /\ \A r \in ReachableRefs :
               /\ PositionOf(r) < Len(olist)
               /\ RecordOf(r).type = graph[r].kind
               /\ \A i \in DOMAIN graph[r].slots :
                    graph[r].slots[i] \in Refs
                      => RecordOf(r).items[i] = PositionOf(graph[r].slots[i])
          /\ Cardinality({p \in DOMAIN olist : olist[p].type # "primitive"})
               = Cardinality(ReachableRefs))

\* listify returned for a graph in which r2, held twice by r1, refers back
\* to r1.
C27_Witness ==
  /\ Finished
  /\ root = "r1"
  /\ graph["r1"].slots = <<"r2", "r2">>
  /\ "r1" \in SlotValues("r2")
  /\ Len(olist) >= 2

\* C28 as stated: listify returns no list for a graph that holds a function
\* or a symbol, at the root or in a slot of a reachable container.
C28_NonEncodableRejected ==
  (Finished /\ ReachableValues \cap NonEncodable # {}) => returned.kind # "list"

\* ------------------------------------------------------------ C29, C30
HexDigits == {"0", "1", "2", "3", "4", "5", "6", "7", "8", "9", "a", "b", "c", "d", "e", "f"}

\* C29: every call of sha3_512 returns 128 characters, each of 0-9a-f; two
\* calls with the same message return the same string; a call begins with a
\* state of fifty zero words, whatever the calls before it left.
C29_DigestWellFormed ==
  /\ [](\A c \in DOMAIN digests :
          /\ Len(digests[c].hex) = 128
          /\ \A k \in DOMAIN digests[c].hex : digests[c].hex[k] \in HexDigits
          /\ \A d \in DOMAIN digests :
               digests[c].message = digests[d].message => digests[c].hex = digests[d].hex)
  /\ [][(sha.pc = "idle" /\ sha'.pc = "update")
          => \A i \in 1..50 : keccak'.s[i] = {}]_vars

\* The empty string was hashed twice, with another message in between.
C29_Witness ==
  /\ Len(digests) = 3
  /\ digests[1].message = <<>>
  /\ digests[2].message # <<>>
  /\ digests[3].message = <<>>
  /\ digests[3].hex = digests[1].hex
  /\ digests[2].hex # digests[1].hex

\* C30: the digests of '', of 'The quick brown fox jumps over the lazy dog'
\* and of the same sentence with a full stop are those hash.test.ts expects,
\* the SHA3-512 digests of these messages.
C30_TestVectors ==
  \A c \in DOMAIN digests :
    /\ digests[c].message = MessageEmpty => digests[c].hex = ExpectedEmpty
    /\ digests[c].message = MessageFox => digests[c].hex = ExpectedFox
    /\ digests[c].message = MessageFoxDot => digests[c].hex = ExpectedFoxDot

\* The three messages of the test were hashed one after the other.
C30_Witness ==
  /\ Len(digests) = 3
  /\ digests[1] = [message |-> MessageEmpty, hex |-> ExpectedEmpty]
  /\ digests[2] = [message |-> MessageFox, hex |-> ExpectedFox]
  /\ digests[3] = [message |-> MessageFoxDot, hex |-> ExpectedFoxDot]

\* ----------------------------------------------------------------- C31
\* The code points of a well-formed string of UTF-16 code units, from unit
\* idx + 1 on, and the standard UTF-8 bytes of a code point and of a string.
RECURSIVE CodePointsFrom(_, _)
CodePointsFrom(message, idx) ==
  IF idx >= Len(message) THEN <<>>
  ELSE LET unit == message[idx + 1] IN
       IF unit >= 55296 /\ unit <= 56319 /\ idx + 2 <= Len(message)
         THEN <<65536 + (unit - 55296) * 1024 + (message[idx + 2] - 56320)>>
                \o CodePointsFrom(message, idx + 2)
         ELSE <<unit>> \o CodePointsFrom(message, idx + 1)
Utf8OfCodePoint(cp) ==
  IF cp < 128 THEN <<cp>>
  ELSE IF cp < 2048 THEN <<192 + (cp \div 64), 128 + (cp % 64)>>
  ELSE IF cp < 65536
    THEN <<224 + (cp \div 4096), 128 + ((cp \div 64) % 64), 128 + (cp % 64)>>
  ELSE <<240 + (cp \div 262144), 128 + ((cp \div 4096) % 64), 128 + ((cp \div 64) % 64),
         128 + (cp % 64)>>
RECURSIVE Utf8From(_, _)
Utf8From(cps, k) ==
  IF k > Len(cps) THEN <<>> ELSE Utf8OfCodePoint(cps[k]) \o Utf8From(cps, k + 1)
Utf8(message) == Utf8From(CodePointsFrom(message, 0), 1)

\* C31: when update has gone through the message, the values it OR-ed into
\* the blocks are the bytes of the standard UTF-8 encoding of the message,
\* each fits in one byte, and no UTF-16 unit beyond the message was consumed.
C31_StandardUtf8 ==
  (sha.pc = "hex") =>
    /\ Len(sha.ored) = Len(Utf8(sha.message))
    /\ \A k \in DOMAIN sha.ored :
         /\ sha.ored[k] \subseteq 0..7
         /\ k <= Len(Utf8(sha.message)) => sha.ored[k] = Bits(Utf8(sha.message)[k])
    /\ sha.index = Len(sha.message)

\* ----------------------------------------------------------------- C32
\* The timestamps under which value v is stored, in a memory store or in the
\* backend (the target returns a different value at every invocation).
StampsOf(v) ==
  {caches[t][i].at : <<t, i>> \in {x \in PTargets \X (1..MaxCacheSize + 1) :
                                     /\ x[2] \in DOMAIN caches[x[1]]
                                     /\ caches[x[1]][x[2]].value = v}}
    \cup {persistentStore[n].at : n \in {x \in DOMAIN persistentStore :
                                          persistentStore[x].value = v}}

\* C32: the entry a backend hit copies into the memory store has the
\* timestamp of the backend's entry; a value is stored under one timestamp
\* in both tiers and no step changes it; with a finite cacheDuration d >= 0 a
\* call returns a stored value only if that timestamp t has now - t <= d.
C32_TimestampKept ==
  /\ [](\A v \in 1..MaxInvocations : Cardinality(StampsOf(v)) <= 1)
  /\ [][\A v \in 1..MaxInvocations :
          (StampsOf(v) # {} /\ StampsOf(v)' # {}) => StampsOf(v)' = StampsOf(v)]_vars
  /\ [][\A k \in PKeys, o \in {"value", "threw"} :
          PCall(1, k, o)
          => /\ (pobs'.path = "backend")
                  => /\ Persisted(1, k)
                     /\ pobs'.result = persistentStore[NameOf(1, k)].value
                     /\ \E j \in EntriesOf(caches'[1], k) :
                          /\ caches'[1][j].value = pobs'.result
                          /\ caches'[1][j].at = persistentStore[NameOf(1, k)].at
             /\ (pobs'.path \in {"hit", "backend"} /\ Finite(cacheDuration)
                   /\ cacheDuration >= 0)
                  => /\ StampsOf(pobs'.result) # {}
                     /\ \A t \in StampsOf(pobs'.result) : now - t <= cacheDuration]_vars

\* With cacheDuration 1, the value computed at time 0 was read through the
\* backend at time 1, the last moment of its life, into a memory entry
\* stamped 0.
C32_Witness ==
  /\ cacheDuration = 1
  /\ now = 1
  /\ pobs.path = "backend"
  /\ pobs.result = 1
  /\ StampsOf(1) = {0}
  /\ \E j \in EntriesOf(caches[1], pobs.key) : caches[1][j] = [key |-> pobs.key, value |-> 1, at |-> 0]
  /\ Persisted(1, pobs.key)

\* ----------------------------------------------------------------- C33
\* C33: a read of the getter `count` derives its key from the receiver as it
\* is before the target runs and stores the result under that key, which the
\* receiver, incremented by the target, no longer derives; its key differs
\* from the key the read before it stored under, so every read invokes the
\* target and none returns the value of the read before it.
C33_KeyBeforeTarget ==
  [][\A this \in Instances :
       ReadCount(this)
       => /\ obs'.key = GetCacheKeyOfHash(Count(this), NoArgs)
          /\ obs'.key # GetCacheKeyOfHash(Count(this)', NoArgs)
          /\ MapHas(cache', obs'.key)
          /\ MapGet(cache', obs'.key).value = obs'.result
          /\ ~MapHas(cache', GetCacheKeyOfHash(Count(this)', NoArgs))
          /\ obs.path # "none" => (obs'.key # obs.key /\ obs'.result # obs.result)
          /\ obs'.path = "miss"
          /\ Len(invoked') = Len(invoked) + 1]_vars

\* random1.count was read twice in the same millisecond with the first
\* result still stored: the reads returned 1 and 2 under different keys.
C33_Witness ==
  /\ Len(invoked) = 2
  /\ invoked[1].this = 1 /\ invoked[2].this = 1
  /\ invoked[1].key # invoked[2].key
  /\ Len(cache) = 2
  /\ cache[1].at = cache[2].at
  /\ obs.result = 2
  /\ Count(1) = 3

\* ----------------------------------------------------------------- C34
\* C34: with a backend that does not fail, a synchronous target and one
\* wrapped target for the persistentKey, every entry of the target's memory
\* store is in the backend under the target's persistentKey with the same
\* value and the same timestamp, after every call.
C34_MemoryWithinBackend ==
  \A i \in DOMAIN caches[1] :
    /\ Persisted(1, caches[1][i].key)
    /\ persistentStore[NameOf(1, caches[1][i].key)].value = caches[1][i].value
    /\ persistentStore[NameOf(1, caches[1][i].key)].at = caches[1][i].at

\* After the memory store was cleared, one key was computed again when its
\* entries in both tiers had expired and the other was copied from the
\* backend: the memory store holds both, as the backend does.
C34_Witness ==
  /\ Len(caches[1]) = 2
  /\ pobs.path = "backend"
  /\ caches[1][1].at > caches[1][2].at
  /\ caches[1][1].value > 2
  /\ Cardinality(DOMAIN persistentStore) = 2

\* ----------------------------------------------------------------- C35
\* C35: when the latest call issued removeCache for its key and then
\* persistCache for it, and every operation of the backend has completed, the
\* backend holds for the key the value the call computed, with the timestamp
\* of the call.
C35_FreshEntryPersisted ==
  (/\ inflight = <<>>
   /\ pobs.path = "miss"
   /\ \E i, j \in DOMAIN pobs.ops :
        /\ i < j
        /\ pobs.ops[i] = Op("removeCache", pobs.key)
        /\ pobs.ops[j] = Op("persistCache", pobs.key))
  => /\ Persisted(1, pobs.key)
     /\ persistentStore[NameOf(1, pobs.key)].value = pobs.result

\* ----------------------------------------------------------------- C36
\* C36: an entry of the backend that has not expired stays as it is in every
\* step, unless the step is a call that evicted the entry's key from its
\* memory store for capacity (a key other than the call's own).
C36_LiveEntryKept ==
  [][\A n \in DOMAIN persistentStore :
       (now - persistentStore[n].at <= cacheDuration)
       => \/ (n \in DOMAIN persistentStore' /\ persistentStore'[n] = persistentStore[n])
          \/ /\ n[2] # pobs'.key
             /\ \E i \in DOMAIN pobs'.ops : pobs'.ops[i] = Op("removeCache", n[2])]_vars

\* ----------------------------------------------------------------- C37
\* C37: the value the latest call of the memoizeOne wrapper returned was
\* computed by an invocation of the target with the key of that call.
C37_ValueOfSameKey ==
  (oobs.path \in {"hit", "miss"})
  => /\ oobs.result \in DOMAIN invoked
     /\ invoked[oobs.result].key = oobs.key

\* ----------------------------------------------------------------- C38
\* C38: a call whose key has an entry in the memory store that has not
\* expired returns the stored value and changes nothing: the store keeps its
\* keys, values, timestamps and order, the target is not invoked and, in the
\* persistent wrapper, no callback of the backend is called.
C38_HitChangesNothing ==
  [][/\ \A hash \in PKeys :
          (/\ Call(hash, "value")
           /\ \E i \in EntriesOf(cache, hash) : ~Expired(cache[i]))
          => /\ cache' = cache
             /\ invoked' = invoked
             /\ \E i \in EntriesOf(cache, hash) : obs'.result = cache[i].value
             /\ <<caches, persistentStore, awaiting>>' = <<caches, persistentStore, awaiting>>
     /\ \A hash \in PKeys :
          (/\ PCall(1, hash, "value")
           /\ \E i \in EntriesOf(caches[1], hash) : ~Expired(caches[1][i]))
          => /\ caches' = caches
             /\ invoked' = invoked
             /\ \E i \in EntriesOf(caches[1], hash) : pobs'.result = caches[1][i].value
             /\ pobs'.ops = <<>>
             /\ persistentStore' = persistentStore
             /\ awaiting' = awaiting
             /\ cache' = cache]_vars

\* Both wrappers hold two keys, and the latest call of each returned the
\* older of its two entries from the memory store.
C38_Witness ==
  /\ obs.path = "hit"
  /\ pobs.path = "hit"
  /\ Len(cache) = 2 /\ cache[1].key = obs.key /\ cache[1].value = obs.result
  /\ Len(caches[1]) = 2 /\ caches[1][1].key = pobs.key /\ caches[1][1].value = pobs.result
  /\ Len(invoked) = 4

\* ----------------------------------------------------------------- C39
Base36Digits == {Digits36[i] : i \in DOMAIN Digits36}

\* C39: a key of cyrb64HashWithLength is the length of the input in base 36
\* followed by fourteen base-36 digits, seven for each half of the hash, the
\* half left-padded with '0'; keys of inputs of different lengths differ.
C39_LengthThenFourteen ==
  \A c \in DOMAIN cyrbKeys :
    LET call == cyrbKeys[c]
        prefix == ToString36(WordOf(Len(call.str)))
        n == Len(prefix)
    IN
    /\ Len(call.key) = n + 14
    /\ SubSeq(call.key, 1, n) = prefix
    /\ \A k \in DOMAIN call.key : call.key[k] \in Base36Digits
    /\ \A h \in 1..2 :
         LET half == call.halves[h]
             field == SubSeq(call.key, n + 7 * (h - 1) + 1, n + 7 * h)
         IN
         /\ Len(half) <= 7
         /\ SubSeq(field, 7 - Len(half) + 1, 7) = half
         /\ \A k \in 1..(7 - Len(half)) : field[k] = "0"
    /\ \A d \in DOMAIN cyrbKeys :
         Len(cyrbKeys[d].str) # Len(call.str) => cyrbKeys[d].key # call.key

\* Keys were computed for '[1]', whose two halves have six digits each and
\* are padded, for '[2]', whose halves have seven, and for the string of 36
\* 'a', whose length takes two digits.
C39_Witness ==
  /\ Len(cyrbKeys) = 3
  /\ cyrbKeys[1].str = <<91, 49, 93>> /\ cyrbKeys[1].seed = 0
  /\ Len(cyrbKeys[1].halves[1]) = 6 /\ Len(cyrbKeys[1].halves[2]) = 6
  /\ Len(cyrbKeys[1].key) = 15
  /\ cyrbKeys[2].str = <<91, 50, 93>> /\ cyrbKeys[2].seed = 0
  /\ Len(cyrbKeys[2].halves[1]) = 7 /\ Len(cyrbKeys[2].halves[2]) = 7
  /\ Len(cyrbKeys[3].str) = 36
  /\ Len(cyrbKeys[3].key) = 16

\* C40: with the wrapper of memoizeWithPersistentCache.ts around an async
\* target, once the promise of a call has resolved its value is in the
\* backend under the key of the call: when the target has been invoked once,
\* its promise has resolved and no continuation is left to run, a call with
\* the same key made after the memory stores were cleared, while an entry of
\* any age is still live, is served from the backend with the resolved value
\* and does not invoke the target again.
C40_ServedFromBackendAfterResolve ==
  [][\A k \in PKeys :
       ( /\ PCallOfMemoizeWithPersistentCache(1, k, "pending")
         /\ caches[1] = <<>>
         /\ Len(invoked) = 1
         /\ invoked[1].key = k
         /\ invoked[1].kind = "resolved"
         /\ microtasks = <<>>
         /\ IsFresh(now, 0, cacheDuration) )
       => /\ pobs'.path = "backend"
          /\ pobs'.result = ResolvedValue(1)
          /\ invoked' = invoked]_vars

====
